---- MODULE Spec2Model ----
(***************************************************************************)
(* sopify: the export dispatcher and its four emitters (api/export), the   *)
(* SOP generation endpoint (api/generate-sop), the chat and Gemini test    *)
(* endpoints, and the Home page that drives generation.                    *)
(*                                                                         *)
(* Text is modelled as a sequence of tokens, so that concatenation,        *)
(* "contains" and the completion marker are computed as the code computes  *)
(* them.  A JSON field that is missing (undefined) is the token Absent.    *)
(***************************************************************************)
EXTENDS Integers, Sequences, FiniteSets, TLC

VARIABLES
    expResp,          \* api/export: the last request and the response given to it
    genResp,          \* api/generate-sop: the request being answered and its response
    chatResp,         \* api/chatbot: the request being answered and its response
    testResp,         \* api/test-gemini: the request being answered and its response
    currentIncident,  \* Home: useState<Incident | null>
    currentSOP,       \* Home: useState<SOP | null>
    isLoading,        \* Home: useState(false)
    error,            \* Home: useState<string | null>
    completedSteps,   \* Home: useState<Set<string>>
    net,              \* Home: the fetch('/api/generate-sop') in flight
    discarded,        \* history: the last submission threw away a non-empty set
    view,             \* SOPDisplay: the props it was rendered with and what it shows
    pdf,              \* generatePDF: the call being made and the cursor yPosition
    metricsApi,       \* api/metrics: the module's sample data and the last response
    page,             \* the exported HTML document opened in a browser
    form,             \* IncidentForm: its fields, and the incidents handed on
    display,          \* SOPDisplay: the completed set it was last rendered with, and Home's set
    chat              \* Chatbot page: messages, input, isLoading and the fetch in flight

vars == <<expResp, genResp, chatResp, testResp, currentIncident, currentSOP, isLoading, error,
          completedSteps, net, discarded, view, pdf,
          metricsApi,
          page,
          form,
          display,
          chat>>

exportVars == <<expResp>>
apiVars == <<genResp, chatResp, testResp>>
homeVars == <<currentIncident, currentSOP, isLoading, error, completedSteps, net, discarded>>
viewVars == <<view>>
pdfVars == <<pdf>>
metricsVars == <<metricsApi>>
pageVars == <<page>>
formVars == <<form>>
displayVars == <<display>>
chatVars == <<chat>>

(***************************************************************************)
(* Bounds                                                                  *)
(***************************************************************************)
\* total number of steps (both lists together) of an SOP sent to api/export
MaxTotalSteps == 3
\* length of each step list in the JSON the AI returns
MaxAISteps == 2
\* number of distinct values of Date.now() seen by the Home page
MaxTime == 2
\* number of steps (both lists together) of an SOP shown by SOPDisplay
MaxShownSteps == 40
\* number of distinct clock values at which api/export is called
MaxExportTime == 2
\* steps of each list of an SOP laid out as PDF
MaxPdfSteps == 2
\* lines a text may take beyond its '\n'-separated parts
MaxWrap == 1
\* lines of a text that does not fit on one page
LongText == 50
\* requests served by one instance of the api/metrics module
MaxMetricsCalls == 3
\* largest limit or offset sent to PUT /api/metrics
MaxPage == 3
\* clicks on the copy button of one exported page
MaxCopyClicks == 1
\* user messages sent in one visit of the chat page
MaxChatTurns == 2

Absent == "<absent>"

(***************************************************************************)
(* Text                                                                    *)
(***************************************************************************)
\* ' ✓ COMPLETED': a space followed by the check mark and the word
Marker == <<"SP", "CHK">>

Contains(s, sub) ==
    \E i \in 1..(Len(s) - Len(sub) + 1) : SubSeq(s, i, i + Len(sub) - 1) = sub

\* `${index + 1}` for the ordinals that occur
NumStr(n) == <<"1", "2", "3", "4", "5", "6", "7", "8", "9">>[n]

SeqsUpTo(S, n) == UNION { [1..k -> S] : k \in 0..n }

(***************************************************************************)
(* api/export: the data sent to it                                         *)
(***************************************************************************)
StepIds == {"step_1", "step_2"}
\* a plain title, and a title whose own text holds the marker
StepTitles == { <<"T">>, <<"T", "SP", "CHK">> }
\* steps that carry no responsible party, duration or priority
ExportSteps ==
    [id : StepIds, title : StepTitles, description : {"D"}, responsible : {Absent},
     estimatedTime : {Absent}, priority : {Absent}]
\* steps whose optional fields are present or not
DetailedSteps ==
    [id : {"step_1"}, title : {<<"T">>}, description : {"D"}, responsible : {Absent, "Alice"},
     estimatedTime : {Absent, "5 min"}, priority : {Absent, "", "low"}]

Severities == {"High", "Medium", "Low"}
\* a title is a sequence of characters
SopTitles == { <<"S">> }
ExampleTitle ==
    << "S", "O", "P", ":", " ", "S", "e", "r", "v", "e", "r", " ", "D", "o", "w", "n", " ",
       "R", "e", "s", "p", "o", "n", "s", "e", " ", "P", "r", "o", "c", "e", "d", "u", "r",
       "e", "!" >>
FilenameTitles == { ExampleTitle, <<"A", "1", "_", "b">>, <<"!", "!">>, <<"S", ":", "p">> }

\* "missing" names the one field the JSON lacks ("none": a complete SOP)
WellFormedSOPs ==
    UNION { { [title |-> t, severity |-> s, immediateSteps |-> im,
               preventiveActions |-> pr, missing |-> "none"] :
                t \in SopTitles, s \in Severities,
                pr \in SeqsUpTo(ExportSteps, MaxTotalSteps - Len(im)) } :
            im \in SeqsUpTo(ExportSteps, MaxTotalSteps) }

BaseStep(id) ==
    [id |-> id, title |-> <<"T">>, description |-> "D", responsible |-> Absent,
     estimatedTime |-> Absent, priority |-> Absent]

BaseSOP ==
    [title |-> <<"S">>, severity |-> "High",
     immediateSteps |-> << BaseStep("step_1") >>,
     preventiveActions |-> << BaseStep("step_2") >>,
     missing |-> "none"]

\* complete SOPs with other titles, and with steps whose optional fields vary
TitledSOPs == { [BaseSOP EXCEPT !.title = t] : t \in FilenameTitles }
DetailedSOPs ==
    { [BaseSOP EXCEPT !.immediateSteps = <<a>>, !.preventiveActions = <<b>>] :
        a \in DetailedSteps, b \in DetailedSteps }

MalformedSOPs ==
    { [BaseSOP EXCEPT !.missing = "title", !.title = <<>>],
      [BaseSOP EXCEPT !.missing = "severity", !.severity = Absent],
      [BaseSOP EXCEPT !.missing = "immediateSteps", !.immediateSteps = <<>>],
      [BaseSOP EXCEPT !.missing = "preventiveActions", !.preventiveActions = <<>>] }
\* sop: undefined / null in the request body
NoSOP ==
    [title |-> <<>>, severity |-> Absent, immediateSteps |-> <<>>,
     preventiveActions |-> <<>>, missing |-> "sop"]

ValidFormats == {"pdf", "docx", "html", "clipboard"}
FormatTokens == ValidFormats \cup {"xml", "PDF", "", Absent}

ExportBodies ==
    [json : {"object"},
     sop : WellFormedSOPs \cup TitledSOPs \cup DetailedSOPs \cup MalformedSOPs \cup {NoSOP},
     format : FormatTokens, completedSteps : SUBSET StepIds]
    \cup
    [json : {"null", "invalid"}, sop : {NoSOP}, format : {Absent}, completedSteps : {{}}]

\* new Date() at the moment of the call; toLocaleDateString() shows its day only
ExportTimes == 1..MaxExportTime
toLocaleDateString(now) == <<"day 1", "day 2", "day 3">>[(now \div 2) + 1]
\* `${new Date().getTime()}`
getTime(now) == <<"t1", "t2", "t3", "t4", "t5">>[now]

(***************************************************************************)
(* api/export: what every emitter derives from the SOP                     *)
(***************************************************************************)
UpperCase == <<"A", "B", "C", "D", "E", "F", "G", "H", "I", "J", "K", "L", "M",
               "N", "O", "P", "Q", "R", "S", "T", "U", "V", "W", "X", "Y", "Z">>
LowerCase == <<"a", "b", "c", "d", "e", "f", "g", "h", "i", "j", "k", "l", "m",
               "n", "o", "p", "q", "r", "s", "t", "u", "v", "w", "x", "y", "z">>
Digits == {"0", "1", "2", "3", "4", "5", "6", "7", "8", "9"}

\* the character class [a-z0-9] under the flag i
IsAlnum(c) ==
    \/ c \in Digits
    \/ \E i \in 1..Len(UpperCase) : c = UpperCase[i] \/ c = LowerCase[i]

\* c.toLowerCase()
toLowerCase(c) ==
    IF \E i \in 1..Len(UpperCase) : c = UpperCase[i]
    THEN LowerCase[CHOOSE i \in 1..Len(UpperCase) : c = UpperCase[i]]
    ELSE c

SanitizeTitle_Strips(title) ==
    LET kept == SelectSeq(title, IsAlnum)
    IN  [i \in 1..Len(kept) |-> toLowerCase(kept[i])]

\* sop.title.replace(/[^a-z0-9]/gi, '_').toLowerCase()
SanitizeTitle(title) ==
    [i \in 1..Len(title) |-> IF IsAlnum(title[i]) THEN toLowerCase(title[i]) ELSE "_"]

\* priority.toUpperCase()
toUpperCase(p) ==
    CASE p = "low" -> "LOW"
      [] p = "medium" -> "MEDIUM"
      [] p = "high" -> "HIGH"
      [] OTHER -> p

\* value || fallback
OrElse(value, fallback) == IF value \in {Absent, ""} THEN fallback ELSE value

\* sop.severity === 'High' ? ... : sop.severity === 'Medium' ? ... : ...
riskLevel(severity) ==
    IF severity = "High" THEN "CRITICAL" ELSE IF severity = "Medium" THEN "MODERATE" ELSE "LOW"
resolutionTarget(severity) ==
    IF severity = "High" THEN "< 30 minutes"
    ELSE IF severity = "Medium" THEN "< 60 minutes" ELSE "< 120 minutes"
availabilityTarget(severity) ==
    IF severity = "High" THEN "99.9%" ELSE IF severity = "Medium" THEN "99.5%" ELSE "99.0%"
\* the metrics grid of the HTML document
HtmlResolutionTarget(severity) ==
    IF severity = "High" THEN "< 30 min"
    ELSE IF severity = "Medium" THEN "< 60 min" ELSE "< 120 min"

(***************************************************************************)
(* api/export: the emitters.  An emitter returns the document it built and *)
(* the file name of its Content-Disposition header (<<>>: none), or throws *)
(* (threw = TRUE) and builds nothing.                                      *)
(***************************************************************************)
NoDoc ==
    [format |-> "none", immediate |-> <<>>, preventive |-> <<>>, riskLevel |-> "",
     resolutionTarget |-> "", availabilityTarget |-> "", generated |-> ""]
Threw == [threw |-> TRUE, doc |-> NoDoc, filename |-> <<>>]
Built(doc, filename) == [threw |-> FALSE, doc |-> doc, filename |-> filename]

\* const isCompleted = completedSteps.includes(step.id)
IsCompleted(step, completed) == step.id \in completed

\* `${ordinal}${step.title}${isCompleted ? ' ✓ COMPLETED' : ''}`
TitleText(ordinal, step, completed) ==
    ordinal \o step.title \o (IF IsCompleted(step, completed) THEN Marker ELSE <<>>)

\* generatePDF.renderDetailedStep: titleText, description and metaInfo, which
\* names only the fields the step has
renderDetailedStep(step, phase, completed) ==
    [title |-> TitleText(phase, step, completed),
     description |-> step.description,
     responsible |-> OrElse(step.responsible, ""),
     duration |-> OrElse(step.estimatedTime, ""),
     priority |-> toUpperCase(OrElse(step.priority, ""))]

\* sop.severity.toLowerCase(), sop.immediateSteps.forEach, sop.title.replace: a
\* TypeError when the field is undefined
PdfThrows(sop) == sop.missing \in {"title", "severity", "immediateSteps", "preventiveActions"}

generatePDF(sop, completed, now) ==
    IF PdfThrows(sop) THEN Threw
    ELSE Built(
            [format |-> "pdf",
             immediate |-> [i \in 1..Len(sop.immediateSteps) |->
                renderDetailedStep(sop.immediateSteps[i], <<"STEP ", NumStr(i), ": ">>, completed)],
             preventive |-> [i \in 1..Len(sop.preventiveActions) |->
                renderDetailedStep(sop.preventiveActions[i], <<"PREVENTION ", NumStr(i), ": ">>, completed)],
             riskLevel |-> riskLevel(sop.severity),
             resolutionTarget |-> resolutionTarget(sop.severity),
             availabilityTarget |-> availabilityTarget(sop.severity),
             generated |-> toLocaleDateString(now)],
            <<"SOP_">> \o SanitizeTitle(sop.title) \o <<"_", getTime(now), ".pdf">>)

DocxImmediateStep(step, i, completed) ==
    [title |-> TitleText(<<"STEP ", NumStr(i), ": ">>, step, completed),
     description |-> step.description,
     responsible |-> OrElse(step.responsible, "Operations Team"),
     duration |-> OrElse(step.estimatedTime, "TBD"),
     priority |-> OrElse(IF step.priority = Absent THEN Absent ELSE toUpperCase(step.priority), "HIGH")]

DocxPreventiveStep(step, i, completed) ==
    [title |-> TitleText(<<"PREVENTION ", NumStr(i), ": ">>, step, completed),
     description |-> step.description,
     responsible |-> OrElse(step.responsible, "DevOps Team"),
     duration |-> OrElse(step.estimatedTime, "TBD"),
     priority |-> OrElse(IF step.priority = Absent THEN Absent ELSE toUpperCase(step.priority), "MEDIUM")]

DocxThrows(sop) == sop.missing \in {"title", "severity", "immediateSteps", "preventiveActions"}

generateDOCX(sop, completed, now) ==
    IF DocxThrows(sop) THEN Threw
    ELSE Built(
            [format |-> "docx",
             immediate |-> [i \in 1..Len(sop.immediateSteps) |->
                DocxImmediateStep(sop.immediateSteps[i], i, completed)],
             preventive |-> [i \in 1..Len(sop.preventiveActions) |->
                DocxPreventiveStep(sop.preventiveActions[i], i, completed)],
             riskLevel |-> riskLevel(sop.severity),
             resolutionTarget |-> resolutionTarget(sop.severity),
             availabilityTarget |-> availabilityTarget(sop.severity),
             generated |-> ""],
            SanitizeTitle(sop.title) \o <<".docx">>)

HtmlImmediateStep(step, i, completed) ==
    [title |-> TitleText(<<"STEP ", NumStr(i), ": ">>, step, completed),
     description |-> step.description,
     responsible |-> OrElse(step.responsible, "Operations Team"),
     duration |-> OrElse(step.estimatedTime, "TBD"),
     priority |-> OrElse(IF step.priority = Absent THEN Absent ELSE toUpperCase(step.priority), "HIGH")]

HtmlPreventiveStep(step, i, completed) ==
    [title |-> TitleText(<<"PREVENTION ", NumStr(i), ": ">>, step, completed),
     description |-> step.description,
     responsible |-> OrElse(step.responsible, "DevOps Team"),
     duration |-> OrElse(step.estimatedTime, "TBD"),
     priority |-> OrElse(IF step.priority = Absent THEN Absent ELSE toUpperCase(step.priority), "MEDIUM")]

HtmlThrows(sop) == sop.missing \in {"title", "severity", "immediateSteps", "preventiveActions"}

HtmlDoc(sop, immediate, preventive, now) ==
    [format |-> "html", immediate |-> immediate, preventive |-> preventive,
     riskLevel |-> riskLevel(sop.severity),
     resolutionTarget |-> HtmlResolutionTarget(sop.severity),
     availabilityTarget |-> availabilityTarget(sop.severity),
     generated |-> toLocaleDateString(now)]

generateHTML_ContinuesNumbering(sop, completed, now) ==
    IF HtmlThrows(sop) THEN Threw
    ELSE Built(HtmlDoc(sop,
            [i \in 1..Len(sop.immediateSteps) |-> HtmlImmediateStep(sop.immediateSteps[i], i, completed)],
            [i \in 1..Len(sop.preventiveActions) |->
                HtmlPreventiveStep(sop.preventiveActions[i], Len(sop.immediateSteps) + i, completed)],
            now), SanitizeTitle(sop.title) \o <<".html">>)

generateHTML(sop, completed, now) ==
    IF HtmlThrows(sop) THEN Threw
    ELSE Built(HtmlDoc(sop,
            [i \in 1..Len(sop.immediateSteps) |-> HtmlImmediateStep(sop.immediateSteps[i], i, completed)],
            [i \in 1..Len(sop.preventiveActions) |-> HtmlPreventiveStep(sop.preventiveActions[i], i, completed)],
            now), SanitizeTitle(sop.title) \o <<".html">>)

ClipboardImmediateStep_PriorityAsGiven(step, i, completed) ==
    [title |-> TitleText(<<"STEP ", NumStr(i), ": ">>, step, completed),
     description |-> step.description,
     responsible |-> OrElse(step.responsible, "Operations Team"),
     duration |-> OrElse(step.estimatedTime, "TBD"),
     priority |-> OrElse(step.priority, "HIGH")]

ClipboardImmediateStep(step, i, completed) ==
    [title |-> TitleText(<<"STEP ", NumStr(i), ": ">>, step, completed),
     description |-> step.description,
     responsible |-> OrElse(step.responsible, "Operations Team"),
     duration |-> OrElse(step.estimatedTime, "TBD"),
     priority |-> toUpperCase(OrElse(step.priority, "HIGH"))]

ClipboardPreventiveStep_NoMarker(step, i, completed) ==
    [title |-> <<"PREVENTION ", NumStr(i), ": ">> \o step.title,
     description |-> step.description,
     responsible |-> OrElse(step.responsible, "DevOps Team"),
     duration |-> OrElse(step.estimatedTime, "TBD"),
     priority |-> toUpperCase(OrElse(step.priority, "MEDIUM"))]

ClipboardPreventiveStep(step, i, completed) ==
    [title |-> TitleText(<<"PREVENTION ", NumStr(i), ": ">>, step, completed),
     description |-> step.description,
     responsible |-> OrElse(step.responsible, "DevOps Team"),
     duration |-> OrElse(step.estimatedTime, "TBD"),
     priority |-> toUpperCase(OrElse(step.priority, "MEDIUM"))]

\* sop.title + '\n\n' does not throw on an undefined title; the other fields do
ClipboardThrows(sop) == sop.missing \in {"severity", "immediateSteps", "preventiveActions"}

\* the JSON {text}: no Content-Disposition header
generateClipboardText(sop, completed) ==
    IF ClipboardThrows(sop) THEN Threw
    ELSE Built(
            [format |-> "clipboard",
             immediate |-> [i \in 1..Len(sop.immediateSteps) |->
                ClipboardImmediateStep(sop.immediateSteps[i], i, completed)],
             preventive |-> [i \in 1..Len(sop.preventiveActions) |->
                ClipboardPreventiveStep(sop.preventiveActions[i], i, completed)],
             riskLevel |-> riskLevel(sop.severity),
             resolutionTarget |-> resolutionTarget(sop.severity),
             availabilityTarget |-> availabilityTarget(sop.severity),
             generated |-> ""],
            <<>>)

(***************************************************************************)
(* api/export: the dispatcher                                              *)
(***************************************************************************)
\* SOPDisplay.handleExport: a.download, set when response.ok
DownloadName(sop, format) ==
    [i \in 1..Len(sop.title) |->
        IF IsAlnum(sop.title[i]) THEN toLowerCase(sop.title[i]) ELSE "_"]
    \o << CASE format = "pdf" -> ".pdf" [] format = "docx" -> ".docx" [] OTHER -> ".html" >>

\* the SOP and the completedSteps array of the request once the call has ended:
\* the handler and the emitters only read them
ExportAfter_MarksCompleted(body) ==
    [sop |-> body.sop,
     completedSteps |-> body.completedSteps
        \cup { body.sop.immediateSteps[i].id : i \in 1..Len(body.sop.immediateSteps) }]

ExportAfter(body) == [sop |-> body.sop, completedSteps |-> body.completedSteps]

\* SOPDisplay.handleExport, copyToClipboard: the component's sop and
\* completedSteps once the handler has ended; it serializes them into the
\* request body and assigns neither
PropsAfter(body) == [sop |-> body.sop, completedSteps |-> body.completedSteps]

IdleExport ==
    [req |-> [json |-> "none", sop |-> NoSOP, format |-> Absent, completedSteps |-> {}],
     status |-> 0, error |-> "", doc |-> NoDoc, filename |-> <<>>, download |-> <<>>,
     invoked |-> <<>>, threw |-> FALSE,
     after |-> [sop |-> NoSOP, completedSteps |-> {}],
     props |-> [sop |-> NoSOP, completedSteps |-> {}]]

ExportError(body, code, msg, called, thrown) ==
    [req |-> body, status |-> code, error |-> msg, doc |-> NoDoc, filename |-> <<>>,
     download |-> <<>>, invoked |-> called, threw |-> thrown, after |-> ExportAfter(body),
     props |-> PropsAfter(body)]

\* !sop
SopFalsy(sop) == sop.missing = "sop"
\* !format
FormatFalsy(format) == format \in {Absent, ""}

\* if (!sop || !format)
MissingRequired_AndInsteadOfOr(sop, format) == SopFalsy(sop) /\ FormatFalsy(format)
MissingRequired(sop, format) == SopFalsy(sop) \/ FormatFalsy(format)

\* switch (format): the emitters called, in order, and what the last one returned
\* (invoked = <<>>: the default branch, no emitter)
NoEmitter == [invoked |-> <<>>, out |-> [threw |-> FALSE, doc |-> NoDoc, filename |-> <<>>]]

Dispatch_DocxCallsHtml(format, sop, completed, now) ==
    CASE format = "pdf" -> [invoked |-> <<"generatePDF">>, out |-> generatePDF(sop, completed, now)]
      [] format = "docx" -> [invoked |-> <<"generateHTML">>, out |-> generateHTML(sop, completed, now)]
      [] format = "html" -> [invoked |-> <<"generateHTML">>, out |-> generateHTML(sop, completed, now)]
      [] format = "clipboard" ->
            [invoked |-> <<"generateClipboardText">>, out |-> generateClipboardText(sop, completed)]
      [] OTHER -> NoEmitter

Dispatch(format, sop, completed, now) ==
    CASE format = "pdf" -> [invoked |-> <<"generatePDF">>, out |-> generatePDF(sop, completed, now)]
      [] format = "docx" -> [invoked |-> <<"generateDOCX">>, out |-> generateDOCX(sop, completed, now)]
      [] format = "html" -> [invoked |-> <<"generateHTML">>, out |-> generateHTML(sop, completed, now)]
      [] format = "clipboard" ->
            [invoked |-> <<"generateClipboardText">>, out |-> generateClipboardText(sop, completed)]
      [] OTHER -> NoEmitter

\* catch (error): the emitter threw
ExportCatch_FallsBackToClipboard(body, d) ==
    LET again == generateClipboardText([body.sop EXCEPT !.missing = "none"], body.completedSteps)
    IN  [req |-> body, status |-> 200, error |-> "", doc |-> again.doc, filename |-> <<>>,
         download |-> <<>>, invoked |-> Append(d.invoked, "generateClipboardText"),
         threw |-> TRUE, after |-> ExportAfter(body),
     props |-> PropsAfter(body)]

ExportCatch(body, d) == ExportError(body, 500, "Export failed", d.invoked, TRUE)

\* POST, called at the time now
ExportPOST(body, now) ==
    IF body.json # "object"
    THEN \* request.json() rejects, or null cannot be destructured: caught
         ExportError(body, 500, "Export failed", <<>>, FALSE)
    ELSE IF MissingRequired(body.sop, body.format)
    THEN ExportError(body, 400, "Missing required parameters", <<>>, FALSE)
    ELSE LET d == Dispatch(body.format, body.sop, body.completedSteps, now)
         IN  IF d.invoked = <<>>
             THEN ExportError(body, 400, "Unsupported format", <<>>, FALSE)
             ELSE IF d.out.threw
             THEN ExportCatch(body, d)
             ELSE [req |-> body, status |-> 200, error |-> "", doc |-> d.out.doc,
                   filename |-> d.out.filename,
                   download |-> IF body.format \in {"pdf", "docx", "html"}
                                THEN DownloadName(body.sop, body.format) ELSE <<>>,
                   invoked |-> d.invoked, threw |-> FALSE, after |-> ExportAfter(body),
     props |-> PropsAfter(body)]

\* one request to POST /api/export, answered
ExportCall ==
    /\ expResp = IdleExport
    /\ \E body \in ExportBodies, now \in ExportTimes : expResp' = ExportPOST(body, now)

\* the response is sent; the route keeps nothing of the call
ExportReturn ==
    /\ expResp # IdleExport
    /\ expResp' = IdleExport

(***************************************************************************)
(* api/generate-sop                                                        *)
(***************************************************************************)
\* `incident_${Date.now()}`
IncidentId(t) == <<"incident_1", "incident_2", "incident_3", "incident_4", "incident_5">>[t]
\* `immediate_${index + 1}`, `preventive_${index + 1}`
ImmediateId(n) == <<"immediate_1", "immediate_2", "immediate_3", "immediate_4", "immediate_5">>[n]
PreventiveId(n) == <<"preventive_1", "preventive_2", "preventive_3", "preventive_4", "preventive_5">>[n]

IncidentTypes == {"Server Down", "Custom"}
\* what the Home page sends
Incidents == [id : {IncidentId(t) : t \in 1..MaxTime}, type : IncidentTypes, severity : Severities]
\* what any client can send: the id or the type may be missing
ApiIncidents ==
    [id : {IncidentId(1), Absent}, type : IncidentTypes \cup {Absent}, severity : Severities]
NoIncident == [id |-> Absent, type |-> Absent, severity |-> Absent]
GenBodies ==
    [json : {"object"}, incident : ApiIncidents]
    \cup [json : {"null", "invalid"}, incident : {NoIncident}]

\* process.env.GEMINI_API_KEY: unset, set but not starting with 'AIza', usable
KeyStates == {"missing", "badformat", "ok"}

\* the substrings of a lower-cased error message that the catch block looks for
Keywords == {"api key", "unauthorized", "invalid key", "quota", "limit",
             "model", "not found", "network", "timeout"}
\* a thrown value: an Error (or not) whose message holds these keywords
Thrown == [isError : BOOLEAN, kws : SUBSET Keywords]
TypeErrorThrown == [isError |-> TRUE, kws |-> {}]
NothingThrown == [isError |-> FALSE, kws |-> {}]

\* a step list in the JSON of the AI: a list, a truthy value that is no list
\* ("notlist"), or a missing / falsy value ("absent")
AISteps == [id : {Absent, "step_1"}]
AILists ==
    { [kind |-> "list", items |-> l] : l \in SeqsUpTo(AISteps, MaxAISteps) }
    \cup { [kind |-> k, items |-> <<>>] : k \in {"absent", "notlist"} }
AIData ==
    [title : {Absent, "T"}, immediateSteps : AILists, preventiveActions : AILists,
     id : {Absent, "ai_id"}, severity : {Absent, "Low"}]
NoData ==
    [title |-> Absent, immediateSteps |-> [kind |-> "absent", items |-> <<>>],
     preventiveActions |-> [kind |-> "absent", items |-> <<>>], id |-> Absent,
     severity |-> Absent]

\* what model.generateContent / response.text() does: throws, returns text that
\* is no JSON, or returns text holding a JSON object
AIOutcomes ==
    { [kind |-> "throw", thrown |-> th, data |-> NoData] : th \in Thrown }
    \cup { [kind |-> "nonjson", thrown |-> NothingThrown, data |-> NoData] }
    \cup { [kind |-> "json", thrown |-> NothingThrown, data |-> d] : d \in AIData }
NotCalled == [kind |-> "notcalled", thrown |-> NothingThrown, data |-> NoData]

GenModel == "gemini-2.5-flash"

\* const stepCount = incident.severity === 'High' ? 5 : ... 'Medium' ? 4 : 3
stepCount(severity) == IF severity = "High" THEN 5 ELSE IF severity = "Medium" THEN 4 ELSE 3
preventiveCount(severity) == IF severity = "High" THEN 5 ELSE IF severity = "Medium" THEN 4 ELSE 3

NoGenSOP ==
    [id |-> Absent, title |-> Absent, immediateSteps |-> <<>>, preventiveActions |-> <<>>,
     severity |-> Absent, incidentType |-> Absent]

\* the catch block: the status of a thrown value
ErrorStatus_QuotaTestedFirst(th) ==
    IF ~th.isError THEN 500
    ELSE IF th.kws \cap {"quota", "limit"} # {} THEN 429
    ELSE IF th.kws \cap {"api key", "unauthorized", "invalid key"} # {} THEN 401
    ELSE IF {"model", "not found"} \subseteq th.kws THEN 503
    ELSE IF th.kws \cap {"network", "timeout"} # {} THEN 503
    ELSE 500

ErrorStatus(th) ==
    IF ~th.isError THEN 500
    ELSE IF th.kws \cap {"api key", "unauthorized", "invalid key"} # {} THEN 401
    ELSE IF th.kws \cap {"quota", "limit"} # {} THEN 429
    ELSE IF {"model", "not found"} \subseteq th.kws THEN 503
    ELSE IF th.kws \cap {"network", "timeout"} # {} THEN 503
    ELSE 500

ErrorText(th) ==
    IF ~th.isError THEN "Failed to generate SOP"
    ELSE IF th.kws \cap {"api key", "unauthorized", "invalid key"} # {} THEN "Invalid API key"
    ELSE IF th.kws \cap {"quota", "limit"} # {} THEN "API quota exceeded"
    ELSE IF {"model", "not found"} \subseteq th.kws THEN "AI model temporarily unavailable"
    ELSE IF th.kws \cap {"network", "timeout"} # {} THEN "Network connection issue"
    ELSE "Failed to generate SOP"

GenRequest(body, key, ai) == [body |-> body, key |-> key, ai |-> ai]

GenFailure(req, code, msg, cause, th, called) ==
    [req |-> req, status |-> code, kind |-> "error", sop |-> NoGenSOP, error |-> msg,
     cause |-> cause, thrown |-> th, calls |-> called, fallback |-> FALSE]

GenCatch(req, th, called) ==
    GenFailure(req, ErrorStatus(th), ErrorText(th), "thrown", th, called)

\* the fallback sopData of the parse catch block
FallbackData(incident) ==
    [title |-> "SOP: Response Procedure",
     immediateSteps |-> [kind |-> "list",
        items |-> << [id |-> "step_1"], [id |-> "step_2"], [id |-> "step_3"] >>],
     preventiveActions |-> [kind |-> "list",
        items |-> << [id |-> "prev_1"], [id |-> "prev_2"] >>],
     id |-> Absent, severity |-> Absent]

\* if (!sopData.title || !sopData.immediateSteps || !sopData.preventiveActions)
MissingSopFields(d) ==
    \/ d.title = Absent
    \/ d.immediateSteps.kind = "absent"
    \/ d.preventiveActions.kind = "absent"

\* try { ... JSON.parse ... validate } catch { fallback }
ParseSopData(ai, incident) ==
    IF ai.kind = "nonjson" \/ MissingSopFields(ai.data) THEN FallbackData(incident) ELSE ai.data

UsedFallback(ai) == ai.kind = "nonjson" \/ MissingSopFields(ai.data)

\* id: step.id || `immediate_${index + 1}`
ImmediateStepsOf(d) ==
    [i \in 1..Len(d.immediateSteps.items) |->
        [id |-> IF d.immediateSteps.items[i].id = Absent THEN ImmediateId(i)
                ELSE d.immediateSteps.items[i].id]]

PreventiveActionsOf(d) ==
    [i \in 1..Len(d.preventiveActions.items) |->
        [id |-> IF d.preventiveActions.items[i].id = Absent THEN PreventiveId(i)
                ELSE d.preventiveActions.items[i].id]]

\* const sop: SOP = { id: incident.id, ..., severity: incident.severity, ... }
AssembleSOP_SpreadsAIData(incident, d) ==
    [id |-> IF d.id = Absent THEN incident.id ELSE d.id,
     title |-> d.title,
     immediateSteps |-> ImmediateStepsOf(d),
     preventiveActions |-> PreventiveActionsOf(d),
     severity |-> IF d.severity = Absent THEN incident.severity ELSE d.severity,
     incidentType |-> incident.type]

AssembleSOP(incident, d) ==
    [id |-> incident.id,
     title |-> d.title,
     immediateSteps |-> ImmediateStepsOf(d),
     preventiveActions |-> PreventiveActionsOf(d),
     severity |-> incident.severity,
     incidentType |-> incident.type]

\* export async function POST(request): body is what request.json() yields
GenerateSopPOST(body, key, ai) ==
    LET req == GenRequest(body, key, ai)
        incident == body.incident
    IN  IF body.json = "invalid"
        THEN GenCatch(req, TypeErrorThrown, <<>>)
        ELSE IF key = "missing"
        THEN GenFailure(req, 500, "Gemini API key not configured", "key_missing",
                        NothingThrown, <<>>)
        ELSE IF key = "badformat"
        THEN GenFailure(req, 500, "Invalid API key format", "key_format",
                        NothingThrown, <<>>)
        ELSE IF body.json = "null" \/ incident.type = Absent
        THEN \* incident.severity of null, incident.type.toLowerCase() of undefined
             GenCatch(req, TypeErrorThrown, <<>>)
        ELSE IF ai.kind = "throw"
        THEN GenCatch(req, ai.thrown, <<GenModel>>)
        ELSE LET sopData == ParseSopData(ai, incident)
             IN  IF sopData.immediateSteps.kind = "notlist"
                    \/ sopData.preventiveActions.kind = "notlist"
                 THEN \* sopData.immediateSteps.map is not a function
                      GenCatch(req, TypeErrorThrown, <<GenModel>>)
                 ELSE [req |-> req, status |-> 200, kind |-> "sop",
                       sop |-> AssembleSOP(incident, sopData), error |-> "",
                       cause |-> "none", thrown |-> NothingThrown,
                       calls |-> <<GenModel>>, fallback |-> UsedFallback(ai)]

\* the requests to api/generate-sop: the AI answers only when it is called
GenReachesModel(body, key) ==
    body.json = "object" /\ body.incident.type # Absent /\ key = "ok"

GenInputs ==
    { r \in { GenRequest(b, k, NotCalled) : b \in GenBodies, k \in KeyStates } :
            ~GenReachesModel(r.body, r.key) }
    \cup { GenRequest(b, "ok", ai) :
            b \in { x \in GenBodies : GenReachesModel(x, "ok") }, ai \in AIOutcomes }

IdleGen ==
    [req |-> GenRequest([json |-> "none", incident |-> NoIncident], "ok", NotCalled),
     status |-> 0, kind |-> "idle", sop |-> NoGenSOP, error |-> "", cause |-> "none",
     thrown |-> NothingThrown, calls |-> <<>>, fallback |-> FALSE]

(***************************************************************************)
(* api/chatbot                                                             *)
(***************************************************************************)
ChatMessages == {Absent, "key component", "incident", "compliance", "other"}
ChatBodies == [json : {"object"}, message : ChatMessages]
              \cup [json : {"invalid"}, message : {Absent}]
\* the model call throws, or returns this text ("": empty or blank)
ChatOutcomes == {"throw", "", "answer"}

ChatFailure(req, called) ==
    [req |-> req, status |-> 500, kind |-> "error", response |-> "", calls |-> called]

FallbackResponse(message) ==
    IF message = "key component" THEN "fallback: key components"
    ELSE IF message = "incident" THEN "fallback: incident management"
    ELSE IF message = "compliance" THEN "fallback: compliance"
    ELSE "fallback: topics"

ChatbotPOST(body, key, ai) ==
    LET req == [body |-> body, key |-> key, ai |-> ai]
    IN  IF body.json = "invalid" THEN ChatFailure(req, <<>>)
        ELSE IF key = "missing"
        THEN [req |-> req, status |-> 500, kind |-> "error", response |-> "", calls |-> <<>>]
        ELSE IF ai = "throw" THEN ChatFailure(req, <<GenModel>>)
        ELSE IF ai = ""
        THEN IF body.message = Absent
             THEN \* message.toLowerCase() of undefined
                  ChatFailure(req, <<GenModel>>)
             ELSE [req |-> req, status |-> 200, kind |-> "response",
                   response |-> FallbackResponse(body.message), calls |-> <<GenModel>>]
        ELSE [req |-> req, status |-> 200, kind |-> "response", response |-> ai,
              calls |-> <<GenModel>>]

IdleChat ==
    [req |-> [body |-> [json |-> "none", message |-> Absent], key |-> "ok", ai |-> "throw"],
     status |-> 0, kind |-> "idle", response |-> "", calls |-> <<>>]

(***************************************************************************)
(* api/test-gemini                                                         *)
(***************************************************************************)
modelsToTry ==
    <<"gemini-2.5-flash", "gemini-2.0-flash", "gemini-2.5-pro", "gemini-2.0-flash-001",
      "gemini-2.5-flash-lite", "gemini-2.0-flash-lite">>

\* per model of the list: the call throws, or returns empty or non-empty text
ModelOracles == [1..Len(modelsToTry) -> {"throw", "empty", "text"}]

LoopStart == [calls |-> <<>>, modelErrors |-> <<>>, testResult |-> Absent, workingModel |-> ""]

RECURSIVE TryModels_NoBreak(_, _, _)
TryModels_NoBreak(i, oracle, st) ==
    IF i > Len(modelsToTry) THEN st
    ELSE IF oracle[i] = "throw"
    THEN TryModels_NoBreak(i + 1, oracle,
            [st EXCEPT !.calls = Append(@, modelsToTry[i]),
                       !.modelErrors = Append(@, modelsToTry[i])])
    ELSE TryModels_NoBreak(i + 1, oracle,
            [st EXCEPT !.calls = Append(@, modelsToTry[i]),
                       !.testResult = IF oracle[i] = "empty" THEN "" ELSE "Hello SOPify!",
                       !.workingModel = modelsToTry[i]])

\* for (const modelName of modelsToTry) { try { ...; break } catch { ...; continue } }
RECURSIVE TryModels(_, _, _)
TryModels(i, oracle, st) ==
    IF i > Len(modelsToTry) THEN st
    ELSE IF oracle[i] = "throw"
    THEN TryModels(i + 1, oracle,
            [st EXCEPT !.calls = Append(@, modelsToTry[i]),
                       !.modelErrors = Append(@, modelsToTry[i])])
    ELSE [st EXCEPT !.calls = Append(@, modelsToTry[i]),
                    !.testResult = IF oracle[i] = "empty" THEN "" ELSE "Hello SOPify!",
                    !.workingModel = modelsToTry[i]]

TestGeminiGET(key, oracle) ==
    LET req == [key |-> key, oracle |-> oracle]
    IN  IF key # "ok"
        THEN [req |-> req, status |-> 500, answer |-> "error", message |-> "key",
              loop |-> LoopStart]
        ELSE LET st == TryModels(1, oracle, LoopStart)
             IN  IF st.testResult \in {Absent, ""}
                 THEN [req |-> req, status |-> 503, answer |-> "error",
                       message |-> "All Gemini models failed", loop |-> st]
                 ELSE [req |-> req, status |-> 200, answer |-> "success",
                       message |-> "Gemini API is working correctly", loop |-> st]

IdleTest ==
    [req |-> [key |-> "ok", oracle |-> [i \in 1..Len(modelsToTry) |-> "throw"]],
     status |-> 0, answer |-> "idle", message |-> "", loop |-> LoopStart]

(***************************************************************************)
(* The three AI endpoints, one request at a time                           *)
(***************************************************************************)
ApiIdle == genResp = IdleGen /\ chatResp = IdleChat /\ testResp = IdleTest

GenCall ==
    /\ ApiIdle
    /\ \E r \in GenInputs : genResp' = GenerateSopPOST(r.body, r.key, r.ai)
    /\ UNCHANGED <<chatResp, testResp>>

ChatCall ==
    /\ ApiIdle
    /\ \E b \in ChatBodies, k \in {"missing", "ok"}, ai \in ChatOutcomes :
            chatResp' = ChatbotPOST(b, k, ai)
    /\ UNCHANGED <<genResp, testResp>>

TestCall ==
    /\ ApiIdle
    /\ \E k \in KeyStates, o \in ModelOracles : testResp' = TestGeminiGET(k, o)
    /\ UNCHANGED <<genResp, chatResp>>

\* the response is sent; no route keeps anything of the call
ApiReturn ==
    /\ ~ApiIdle
    /\ genResp' = IdleGen /\ chatResp' = IdleChat /\ testResp' = IdleTest

(***************************************************************************)
(* The Home page                                                           *)
(***************************************************************************)
NullSOP == NoGenSOP
NetIdle == [stage |-> "idle", incident |-> NoIncident, resp |-> IdleGen]

StepIdsOf(sop) ==
    { sop.immediateSteps[i].id : i \in 1..Len(sop.immediateSteps) }
    \cup { sop.preventiveActions[i].id : i \in 1..Len(sop.preventiveActions) }

\* handleIncidentSubmit, up to the await of fetch.  The form's submit button is
\* disabled while isLoading.
SubmitResets_KeepsCompleted(done) == done
SubmitResets(done) == {}

HandleIncidentSubmit ==
    /\ ~isLoading
    /\ \E incident \in Incidents :
        /\ currentIncident' = incident
        /\ net' = [stage |-> "request", incident |-> incident, resp |-> IdleGen]
    /\ isLoading' = TRUE
    /\ error' = ""
    /\ completedSteps' = SubmitResets(completedSteps)
    /\ currentSOP' = NullSOP
    /\ discarded' = (completedSteps # {})

\* the server answers the request in flight, the AI doing one of outcomes
Serve(outcomes) ==
    /\ net.stage = "request"
    /\ \E k \in KeyStates, ai \in outcomes :
        net' = [net EXCEPT !.stage = "response",
                           !.resp = GenerateSopPOST([json |-> "object", incident |-> net.incident],
                                                    k, IF k = "ok" THEN ai ELSE NotCalled)]
    /\ UNCHANGED <<currentIncident, currentSOP, isLoading, error, completedSteps, discarded>>

ServeGenerateSop == Serve(AIOutcomes)

\* one AI outcome of each kind: a throw of each status class, text that is no
\* JSON, and JSON with or without its title and with step lists of at most
\* one step
TypicalOutcomes ==
    { ai \in AIOutcomes :
        /\ ai.thrown.kws \in {{}, {"quota"}, {"api key"}, {"network"}}
        /\ ai.thrown.isError \/ ai.kind # "throw"
        /\ ai.data.id = Absent /\ ai.data.severity = Absent
        /\ Len(ai.data.immediateSteps.items) <= 1
        /\ Len(ai.data.preventiveActions.items) <= 1 }

ServeTypical == Serve(TypicalOutcomes)

ReceiveResponse_ErrorKeepsLoading ==
    /\ net.stage = "response"
    /\ IF net.resp.status # 200
       THEN /\ error' = net.resp.error
            /\ UNCHANGED <<currentSOP, isLoading>>
       ELSE /\ currentSOP' = net.resp.sop
            /\ isLoading' = FALSE
            /\ UNCHANGED error
    /\ net' = NetIdle
    /\ UNCHANGED <<currentIncident, completedSteps, discarded>>

\* handleIncidentSubmit after the await: response.ok or not, then finally
ReceiveResponse ==
    /\ net.stage = "response"
    /\ IF net.resp.status # 200
       THEN /\ error' = net.resp.error
            /\ UNCHANGED currentSOP
       ELSE /\ currentSOP' = net.resp.sop
            /\ UNCHANGED error
    /\ isLoading' = FALSE
    /\ net' = NetIdle
    /\ UNCHANGED <<currentIncident, completedSteps, discarded>>

\* fetch rejects (no connection): catch, then finally
FetchRejects ==
    /\ net.stage \in {"request", "response"}
    /\ error' = "Failed to fetch"
    /\ isLoading' = FALSE
    /\ net' = NetIdle
    /\ UNCHANGED <<currentIncident, currentSOP, completedSteps, discarded>>

\* SOPDisplay.toggleStepCompletion -> Home.handleStepCompletion
handleStepCompletion(prev, stepId, completed) ==
    IF completed THEN prev \cup {stepId} ELSE prev \ {stepId}

ToggleStep ==
    /\ currentSOP # NullSOP
    /\ \E stepId \in StepIdsOf(currentSOP) :
        LET isCompleting == stepId \notin completedSteps
        IN  completedSteps' = handleStepCompletion(completedSteps, stepId, isCompleting)
    /\ UNCHANGED <<currentIncident, currentSOP, isLoading, error, net, discarded>>

\* onClick={() => setError(null)}
DismissError ==
    /\ error # ""
    /\ error' = ""
    /\ UNCHANGED <<currentIncident, currentSOP, isLoading, completedSteps, net, discarded>>

\* onNewSOP={() => setCurrentSOP(null)}
OnNewSOP ==
    /\ currentSOP # NullSOP
    /\ currentSOP' = NullSOP
    /\ UNCHANGED <<currentIncident, isLoading, error, completedSteps, net, discarded>>

(***************************************************************************)
(* SOPDisplay: the completion percentage.  A JavaScript number is an IEEE   *)
(* 754 double: an integer significand of at most 53 bits (most significant  *)
(* bit first) scaled by a power of two, [bits, frac] standing for           *)
(* bits * 2^(-frac); every operation rounds to nearest, ties to even.       *)
(***************************************************************************)
Precision == 53

RECURSIVE NatToBits(_)
NatToBits(n) == IF n = 0 THEN <<>> ELSE Append(NatToBits(n \div 2), n % 2)

RECURSIVE BitsToNat(_)
BitsToNat(b) ==
    IF b = <<>> THEN 0 ELSE 2 * BitsToNat(SubSeq(b, 1, Len(b) - 1)) + b[Len(b)]

\* b without its leading zeros
StripZeros(b) ==
    IF \A i \in 1..Len(b) : b[i] = 0 THEN <<>>
    ELSE LET first == CHOOSE i \in 1..Len(b) : b[i] = 1 /\ \A k \in 1..(i - 1) : b[k] = 0
         IN  SubSeq(b, first, Len(b))

Zeros(n) == [i \in 1..n |-> 0]

\* b + 1: a bit flips when every bit below it is 1
Increment(b) ==
    LET flips(i) == \A k \in (i + 1)..Len(b) : b[k] = 1
    IN  (IF flips(0) THEN <<1>> ELSE <<>>)
        \o [i \in 1..Len(b) |-> IF flips(i) THEN 1 - b[i] ELSE b[i]]

\* a + b, for a and b of the same length: the carry into position i comes from
\* a lower position where both bits are 1, passed on by every position between
AddBits(a, b) ==
    LET n == Len(a)
        carry(i) == \E j \in (i + 1)..n :
                        /\ a[j] = 1 /\ b[j] = 1
                        /\ \A k \in (i + 1)..(j - 1) : a[k] + b[k] >= 1
        c(i) == IF carry(i) THEN 1 ELSE 0
    IN  (IF carry(0) THEN <<1>> ELSE <<>>)
        \o [i \in 1..n |-> (a[i] + b[i] + c(i)) % 2]

Add(a, b) ==
    LET n == IF Len(a) > Len(b) THEN Len(a) ELSE Len(b)
    IN  AddBits(Zeros(n - Len(a)) \o a, Zeros(n - Len(b)) \o b)

\* the double nearest to bits * 2^(-frac) (sticky: a non-zero residue lies below
\* the last bit), ties to even
RoundToDouble(bits, frac, sticky) ==
    LET b == StripZeros(bits)
        drop == Len(b) - Precision
    IN  IF drop <= 0 THEN [bits |-> b, frac |-> frac]
        ELSE LET kept == SubSeq(b, 1, Precision)
                 rest == sticky \/ \E i \in (Precision + 2)..Len(b) : b[i] = 1
                 up == b[Precision + 1] = 1 /\ (rest \/ kept[Precision] = 1)
             IN  [bits |-> IF up THEN Increment(kept) ELSE kept, frac |-> frac - drop]

\* long division, eight bits at a time: the first 8 * n bits after the binary
\* point of rem / t (rem < t), and what remains
RECURSIVE DivideBits(_, _, _, _)
DivideBits(rem, t, n, acc) ==
    IF n = 0 THEN [bits |-> acc, rem |-> rem]
    ELSE LET q == NatToBits((256 * rem) \div t)
         IN  DivideBits((256 * rem) % t, t, n - 1, acc \o Zeros(8 - Len(q)) \o q)

\* completedSteps.size / (sop.immediateSteps.length + sop.preventiveActions.length),
\* for t < 128: 64 bits after the point hold the 53 significant bits and the next
Divide(s, t) ==
    LET d == DivideBits(s % t, t, 8, <<>>)
    IN  RoundToDouble(NatToBits(s \div t) \o d.bits, 64, d.rem # 0)

\* ... * 100
Times100(x) ==
    RoundToDouble(Add(Add(x.bits \o Zeros(6), x.bits \o Zeros(5)), x.bits \o Zeros(2)),
                  x.frac, FALSE)

\* Math.round: the nearest integer, a half rounded up (for 0 <= x, frac >= 0)
MathRound(x) ==
    LET whole == Len(x.bits) - x.frac
    IN  (IF whole <= 0 THEN 0 ELSE BitsToNat(SubSeq(x.bits, 1, whole)))
        + (IF whole + 1 >= 1 /\ whole + 1 <= Len(x.bits) THEN x.bits[whole + 1] ELSE 0)

\* Math.round((size / total) * 100) || 0, for size <= total: 0 / 0 is NaN, and
\* NaN || 0 is 0
completionPercentage(size, total) ==
    IF total = 0 THEN 0 ELSE MathRound(Times100(Divide(size, total)))

NotRendered == [rendered |-> FALSE, size |-> 0, total |-> 0, percentage |-> 0]

\* SOPDisplay is rendered with an SOP and a set of completed steps.  The set
\* holds ids of steps of that SOP only, so its size does not exceed the number
\* of steps.
RenderSOPDisplay ==
    /\ ~view.rendered
    /\ \E total \in 0..MaxShownSteps :
        \E size \in 0..total :
            view' = [rendered |-> TRUE, size |-> size, total |-> total,
                     percentage |-> completionPercentage(size, total)]

\* {currentSOP && <SOPDisplay ... />}: the SOP is cleared
UnmountSOPDisplay ==
    /\ view.rendered
    /\ view' = NotRendered

InitView == view = NotRendered

(***************************************************************************)
(* generatePDF: the cursor yPosition while the document is laid out.       *)
(* Lengths are in tenths of a millimetre.                                  *)
(***************************************************************************)
\* doc.internal.pageSize.getHeight() of new jsPDF('p', 'mm', 'a4')
PageHeight == 2970
\* const margin = 20
Margin == 200
\* the 15 of pageHeight - margin - 15
FooterReservation == 150
PageLimit == PageHeight - Margin - FooterReservation
\* yPosition = margin + 10 on a new page
PageTop == Margin + 100

checkPageSpace_IgnoresFooter(y, requiredSpace) ==
    IF y + requiredSpace > PageHeight - Margin THEN PageTop ELSE y

\* checkPageSpace(requiredSpace): the cursor after the call
checkPageSpace(y, requiredSpace) ==
    IF y + requiredSpace > PageLimit THEN PageTop ELSE y

\* const lineHeight = fontSize * 0.4 + 2
lineHeight(fontSize) == fontSize * 4 + 20

\* the calls generatePDF makes, in order.  Text: addText(text, fontSize, ..,
\* bottomSpacing) with the number of '\n'-separated parts of the text, which
\* is "fixed" (a short literal), "wraps" (a long literal, which may wrap) or
\* "free" (it holds text of the SOP).  Box: checkPageSpace(n) followed by a
\* roundedRect at yPosition.  Advance: yPosition += n.
Text(fontSize, bottomSpacing, parts, fit) ==
    [kind |-> "text", fontSize |-> fontSize, mm |-> bottomSpacing * 10, parts |-> parts,
     fit |-> fit]
Section == [kind |-> "section", fontSize |-> 14, mm |-> 0, parts |-> 1, fit |-> "fixed"]
Box(requiredSpace) ==
    [kind |-> "box", fontSize |-> 0, mm |-> requiredSpace * 10, parts |-> 0, fit |-> "fixed"]
Advance(by) == [kind |-> "advance", fontSize |-> 0, mm |-> by * 10, parts |-> 0, fit |-> "fixed"]

\* title, classification card, summary, risk, trigger, head of phase 1
PdfOpening ==
    << Text(12, 4, 1, "fixed"), Text(18, 12, 1, "free"), Box(50), Advance(55), Section,
       Text(10, 12, 1, "free"), Section, Text(11, 6, 1, "fixed"), Text(10, 8, 1, "free"),
       Text(10, 12, 1, "wraps"), Section, Box(25), Advance(4), Text(10, 4, 1, "fixed"),
       Text(10, 8, 1, "free"), Text(10, 4, 1, "fixed"), Text(10, 12, 4, "fixed"), Section,
       Text(10, 8, 1, "wraps") >>

\* renderDetailedStep
StepCard ==
    << Box(50), Advance(6), Text(12, 4, 1, "free"), Text(10, 6, 1, "free"),
       Text(9, 8, 1, "free"), Advance(6) >>

\* escalation, root cause analysis, head of phase 2
PdfMiddle ==
    << Section, Text(10, 8, 1, "wraps"), Text(11, 4, 1, "fixed"), Text(10, 8, 3, "fixed"),
       Text(11, 4, 1, "fixed"), Text(10, 8, 3, "fixed"), Text(11, 4, 1, "fixed"),
       Text(10, 12, 3, "fixed"), Section, Text(10, 8, 1, "wraps"),
       Text(11, 4, 1, "fixed"), Text(10, 6, 1, "wraps"), Text(11, 4, 1, "fixed"),
       Text(10, 6, 1, "wraps"), Text(11, 4, 1, "fixed"), Text(10, 8, 1, "wraps"),
       Advance(8), Section, Text(10, 8, 1, "wraps") >>

\* additional measures, teams, metrics, compliance, follow-up, lessons, approvals
PdfClosing ==
    << Text(12, 8, 1, "fixed"), Text(11, 4, 1, "fixed"), Text(10, 8, 3, "fixed"),
       Text(11, 4, 1, "fixed"), Text(10, 8, 3, "fixed"), Text(11, 4, 1, "fixed"),
       Text(10, 12, 3, "fixed"), Section, Box(40), Advance(6), Text(11, 4, 1, "fixed"),
       Text(10, 6, 1, "free"), Text(11, 4, 1, "fixed"), Text(10, 12, 4, "fixed"), Section,
       Text(11, 4, 1, "fixed"), Text(10, 4, 1, "fixed"), Text(10, 4, 1, "fixed"),
       Text(10, 4, 1, "fixed"), Text(10, 8, 1, "fixed"), Text(11, 4, 1, "fixed"),
       Text(10, 12, 5, "fixed"), Section, Text(11, 4, 1, "fixed"),
       Text(10, 8, 4, "fixed"), Text(11, 4, 1, "fixed"), Text(10, 12, 4, "fixed"),
       Section, Box(30), Advance(6), Text(11, 4, 1, "fixed"), Text(10, 6, 2, "fixed"),
       Text(11, 4, 1, "fixed"), Text(10, 6, 3, "fixed"), Text(11, 4, 1, "fixed"),
       Text(10, 12, 3, "fixed"), Section, Text(11, 4, 1, "fixed"), Text(10, 8, 1, "free"),
       Text(11, 4, 1, "fixed"), Text(10, 8, 4, "fixed"), Text(11, 4, 1, "fixed"),
       Text(10, 12, 4, "fixed"), Section, Box(35), Advance(6), Text(11, 4, 1, "fixed"),
       Text(10, 6, 1, "wraps"), Text(11, 4, 1, "fixed"), Text(10, 4, 1, "fixed"),
       Text(10, 4, 1, "fixed"), Text(10, 6, 1, "fixed"), Text(10, 12, 1, "fixed") >>

\* the parts of generatePDF's body: the calls before the loop over
\* sop.immediateSteps, one pass of that loop, the calls between the loops, one
\* pass of the loop over sop.preventiveActions, the calls after it
PartCalls(part) ==
    CASE part = "opening" -> PdfOpening
      [] part \in {"immediate", "preventive"} -> StepCard
      [] part = "middle" -> PdfMiddle
      [] OTHER -> PdfClosing

\* sop.immediateSteps.forEach(...), sop.preventiveActions.forEach(...) over a
\* list of n steps that are still to be rendered
ForEach(part, after, n) ==
    IF n > 0 THEN [part |-> part, at |-> 1, left |-> n]
    ELSE [part |-> after, at |-> 1, left |-> 0]

\* where generatePDF goes on after the call at position p; the length of a
\* list of the SOP is read when its loop is entered
NextPositions(p) ==
    IF p.at < Len(PartCalls(p.part))
    THEN { [part |-> p.part, at |-> p.at + 1, left |-> p.left] }
    ELSE CASE p.part = "opening" -> { ForEach("immediate", "middle", n) : n \in 0..MaxPdfSteps }
           [] p.part = "immediate" -> { ForEach("immediate", "middle", p.left - 1) }
           [] p.part = "middle" -> { ForEach("preventive", "closing", n) : n \in 0..MaxPdfSteps }
           [] p.part = "preventive" -> { ForEach("preventive", "closing", p.left - 1) }
           [] OTHER -> { [part |-> "footers", at |-> 0, left |-> 0] }

\* doc.splitTextToSize(text, contentWidth - leftIndent).length
splitTextToSize(call) ==
    CASE call.fit = "fixed" -> {call.parts}
      [] call.fit = "wraps" -> call.parts .. (call.parts + MaxWrap)
      [] OTHER -> (1 .. (1 + MaxWrap)) \cup {LongText}

\* doc.addPage() inside checkPageSpace: the number of pages after the call
PagesAfter(pages, y, requiredSpace) ==
    IF y + requiredSpace > PageLimit THEN pages + 1 ELSE pages

addFooterToAllPages_SkipsLastPage(pageCount) ==
    [i \in 1..(pageCount - 1) |-> [page |-> i, text |-> <<"Page ", i, " of ", pageCount>>]]

\* addFooterToAllPages: for (i = 1; i <= pageCount; i++) { doc.setPage(i);
\* ... doc.text(`Page ${i} of ${pageCount}`, ...) }, the stamps in the
\* order they are drawn
addFooterToAllPages(pageCount) ==
    [i \in 1..pageCount |-> [page |-> i, text |-> <<"Page ", i, " of ", pageCount>>]]

NoPdf ==
    [part |-> "none", at |-> 0, left |-> 0, yPosition |-> 0, origin |-> 0, pages |-> 0,
     footers |-> <<>>]
PdfDrawing == pdf.part \in {"opening", "immediate", "middle", "preventive", "closing"}
PdfCall == PartCalls(pdf.part)[pdf.at]
PdfAt(kind) == PdfDrawing /\ PdfCall.kind = kind

\* generatePDF is called: yPosition = margin, then addHeader() draws the logo
\* there and moves the cursor by 25
GeneratePDF ==
    /\ pdf = NoPdf
    /\ pdf' = [part |-> "opening", at |-> 1, left |-> 0, yPosition |-> Margin + 250,
               origin |-> Margin, pages |-> 1, footers |-> <<>>]

\* addText: checkPageSpace(totalTextHeight + bottomSpacing), the lines drawn
\* from yPosition on, yPosition += totalTextHeight + bottomSpacing
AddText ==
    /\ PdfAt("text")
    /\ \E lines \in splitTextToSize(PdfCall), next \in NextPositions(pdf) :
        LET totalTextHeight == lines * lineHeight(PdfCall.fontSize)
            y == checkPageSpace(pdf.yPosition, totalTextHeight + PdfCall.mm)
        IN  pdf' = [pdf EXCEPT !.part = next.part, !.at = next.at, !.left = next.left,
                               !.origin = y,
                               !.yPosition = y + totalTextHeight + PdfCall.mm,
                               !.pages = PagesAfter(@, pdf.yPosition,
                                                    totalTextHeight + PdfCall.mm)]

\* addSectionHeader: checkPageSpace(25), the divider drawn at yPosition,
\* yPosition += 6, the title, yPosition += 12
AddSectionHeader ==
    /\ PdfAt("section")
    /\ \E next \in NextPositions(pdf) :
        LET y == checkPageSpace(pdf.yPosition, 250)
        IN  pdf' = [pdf EXCEPT !.part = next.part, !.at = next.at, !.left = next.left,
                               !.origin = y, !.yPosition = y + 60 + 120,
                               !.pages = PagesAfter(@, pdf.yPosition, 250)]

\* checkPageSpace(n); doc.roundedRect(margin, yPosition, ...)
DrawBox ==
    /\ PdfAt("box")
    /\ \E next \in NextPositions(pdf) :
        LET y == checkPageSpace(pdf.yPosition, PdfCall.mm)
        IN  pdf' = [pdf EXCEPT !.part = next.part, !.at = next.at, !.left = next.left,
                               !.origin = y, !.yPosition = y,
                               !.pages = PagesAfter(@, pdf.yPosition, PdfCall.mm)]

\* yPosition += n
AdvanceCursor ==
    /\ PdfAt("advance")
    /\ \E next \in NextPositions(pdf) :
        pdf' = [pdf EXCEPT !.part = next.part, !.at = next.at, !.left = next.left,
                           !.yPosition = @ + PdfCall.mm]

\* all content is drawn: const pageCount = doc.internal.pages.length - 1
\* and the footer of every page
AddFooterToAllPages ==
    /\ pdf.part = "footers"
    /\ pdf' = [pdf EXCEPT !.part = "output", !.footers = addFooterToAllPages(pdf.pages)]

\* doc.output('arraybuffer') and the response
ReturnPDF ==
    /\ pdf.part = "output"
    /\ pdf' = NoPdf

InitPdf == pdf = NoPdf

(***************************************************************************)
(* api/metrics                                                             *)
(***************************************************************************)
\* data/sampleData.ts; complianceRate and efficiencyImprovement in tenths
SampleMetrics ==
    [incidentsByType |->
        ("Server Down" :> 78 @@ "Network Issue" :> 65 @@ "UI Bug" :> 41
         @@ "Customer Complaint" :> 33 @@ "Database Error" :> 52 @@ "Security Breach" :> 12
         @@ "Performance Issue" :> 89 @@ "Integration Failure" :> 27
         @@ "Authentication Issue" :> 19 @@ "Data Corruption" :> 8 @@ "Service Outage" :> 34
         @@ "API Failure" :> 45 @@ "Storage Issue" :> 23 @@ "Backup Failure" :> 15
         @@ "Monitoring Alert" :> 156 @@ "Configuration Error" :> 38
         @@ "Deployment Issue" :> 29 @@ "Third-party Service Down" :> 21
         @@ "Resource Exhaustion" :> 31 @@ "Compliance Violation" :> 6 @@ "Custom" :> 18),
     incidentsBySeverity |-> [Low |-> 432, Medium |-> 287, High |-> 121],
     complianceRate |-> 942, averageResolutionTime |-> 28, efficiencyImprovement |-> 317,
     totalSOPs |-> 840]
SampleIncidents ==
    << [id |-> "1", type |-> "Server Down", severity |-> "High"],
       [id |-> "2", type |-> "Network Issue", severity |-> "Medium"],
       [id |-> "3", type |-> "UI Bug", severity |-> "Low"],
       [id |-> "4", type |-> "Customer Complaint", severity |-> "Medium"],
       [id |-> "5", type |-> "Database Error", severity |-> "High"] >>
SampleData == [sampleMetrics |-> SampleMetrics, sampleIncidents |-> SampleIncidents]

\* the query parameters and bodies sent to the three handlers
TimeRanges == {Absent, "", "7d", "30d", "90d", "1y"}
TypeParams == {Absent, "all", "Server Down", "UI Bug", "Custom"}
\* limit and offset as sent: absent, text that is no number, or decimal digits
Decimal == <<"0", "1", "2", "3", "4", "5", "6", "7", "8", "9", "10">>
PageParams == {Absent, "abc"} \cup { Decimal[n + 1] : n \in 0..MaxPage }
StoreBodies == {"invalid", "null", "object", "incident"}

Min(a, b) == IF a < b THEN a ELSE b
Max(a, b) == IF a > b THEN a ELSE b

\* GET: let metrics = { ...sampleMetrics } is a copy, so that the assignments
\* to metrics.totalSOPs and metrics.complianceRate leave sampleMetrics alone
MetricsOf(data, timeRangeParam, incidentType) ==
    LET timeRange == OrElse(timeRangeParam, "30d")
        filteredIncidents == SelectSeq(data.sampleIncidents, LAMBDA i : i.type = incidentType)
        filtered == IF incidentType \notin {Absent, "", "all"}
                    THEN [data.sampleMetrics EXCEPT !.totalSOPs = Len(filteredIncidents)]
                    ELSE data.sampleMetrics
    IN  CASE timeRange = "7d" ->
                [filtered EXCEPT !.totalSOPs = (filtered.totalSOPs * 2) \div 10,
                                 !.complianceRate = Min(filtered.complianceRate + 20, 1000)]
          [] timeRange = "90d" ->
                [filtered EXCEPT !.totalSOPs = (filtered.totalSOPs * 35) \div 10,
                                 !.complianceRate = Max(filtered.complianceRate - 30, 0)]
          [] OTHER -> filtered

DataAfterGET_AssignsToSample(data, metrics) == [data EXCEPT !.sampleMetrics = metrics]
\* the module's data once GET has answered with metrics
DataAfterGET(data, metrics) == data

\* parseInt(searchParams.get(name) || fallback); NaN is written as -1
IsNaN(n) == n < 0
parseInt(param, fallback) ==
    LET text == OrElse(param, fallback)
    IN  IF \E i \in 1..Len(Decimal) : Decimal[i] = text
        THEN (CHOOSE i \in 1..Len(Decimal) : Decimal[i] = text) - 1
        ELSE -1

\* sampleIncidents.slice(start, end): NaN counts as 0
Slice(list, start, end) ==
    LET a == IF IsNaN(start) THEN 0 ELSE start
        b == IF IsNaN(end) THEN 0 ELSE Min(end, Len(list))
    IN  IF a < b THEN SubSeq(list, a + 1, b) ELSE <<>>

\* PUT: a page of the incident history; offset + limit is NaN when either is
HistoryPage(data, limitParam, offsetParam) ==
    LET limit == parseInt(limitParam, "10")
        offset == parseInt(offsetParam, "0")
        end == IF IsNaN(limit) \/ IsNaN(offset) THEN -1 ELSE offset + limit
    IN  [incidents |-> Slice(data.sampleIncidents, offset, end),
         total |-> Len(data.sampleIncidents),
         hasMore |-> ~IsNaN(end) /\ end < Len(data.sampleIncidents)]

\* POST: const { incident } = await request.json() throws on a body that is
\* no JSON or is null; the incident is logged and nothing is kept
StoreIncident(body) ==
    IF body \in {"invalid", "null"}
    THEN [status |-> 500, body |-> [error |-> "Failed to store incident"]]
    ELSE [status |-> 200,
          body |-> [success |-> TRUE, message |-> "Incident stored successfully"]]

IdleMetrics ==
    [data |-> SampleData, served |-> 0,
     resp |-> [method |-> "none", query |-> <<>>, status |-> 0, body |-> [error |-> ""]]]

MetricsGET ==
    /\ metricsApi.served < MaxMetricsCalls
    /\ \E timeRange \in TimeRanges, type \in TypeParams :
        LET metrics == MetricsOf(metricsApi.data, timeRange, type)
        IN  metricsApi' =
                [data |-> DataAfterGET(metricsApi.data, metrics),
                 served |-> metricsApi.served + 1,
                 resp |-> [method |-> "GET", query |-> <<timeRange, type>>, status |-> 200,
                           body |-> metrics]]

MetricsPOST ==
    /\ metricsApi.served < MaxMetricsCalls
    /\ \E body \in StoreBodies :
        metricsApi' =
            [metricsApi EXCEPT !.served = @ + 1,
                !.resp = [method |-> "POST", query |-> <<body>>,
                          status |-> StoreIncident(body).status,
                          body |-> StoreIncident(body).body]]

MetricsPUT ==
    /\ metricsApi.served < MaxMetricsCalls
    /\ \E limit \in PageParams, offset \in PageParams :
        metricsApi' =
            [metricsApi EXCEPT !.served = @ + 1,
                !.resp = [method |-> "PUT", query |-> <<limit, offset>>, status |-> 200,
                          body |-> HistoryPage(metricsApi.data, limit, offset)]]

InitMetrics == metricsApi = IdleMetrics

(***************************************************************************)
(* The exported HTML document, opened in a browser                         *)
(***************************************************************************)
\* the SOPs whose HTML export is opened: one immediate step and one
\* preventive action, each with a plain title or one that holds the marker
PageSOPs ==
    { [BaseSOP EXCEPT !.immediateSteps = << [BaseStep("step_1") EXCEPT !.title = a] >>,
                      !.preventiveActions = << [BaseStep("step_2") EXCEPT !.title = b] >>] :
        a \in StepTitles, b \in StepTitles }

\* the names the document's script declares: its two functions.  The
\* template interpolates the SOP's fields into the markup and writes no
\* declaration of sop into the script.
ScriptGlobals == {"toggleStep", "copySOPToClipboard"}

\* a step element: the checkbox, the class 'completed' and the h3's text
StepElement(card, isCompleted) ==
    [checked |-> isCompleted, completed |-> isCompleted, title |-> card.title]

StepElements(doc, sop, completed) ==
    [i \in 1..Len(doc.immediate) |->
        StepElement(doc.immediate[i], IsCompleted(sop.immediateSteps[i], completed))]
    \o [i \in 1..Len(doc.preventive) |->
        StepElement(doc.preventive[i], IsCompleted(sop.preventiveActions[i], completed))]

\* text.replace(' ✓ COMPLETED', ''): the first occurrence is removed
RemoveFirst(text, sub) ==
    IF Contains(text, sub)
    THEN LET i == CHOOSE k \in 1..Len(text) :
                    /\ k + Len(sub) - 1 <= Len(text)
                    /\ SubSeq(text, k, k + Len(sub) - 1) = sub
                    /\ \A j \in 1..(k - 1) :
                        j + Len(sub) - 1 > Len(text) \/ SubSeq(text, j, j + Len(sub) - 1) # sub
         IN  SubSeq(text, 1, i - 1) \o SubSeq(text, i + Len(sub), Len(text))
    ELSE text

\* toggleStep, run by onchange with the checkbox already flipped; the test
\* is textContent.includes('✓ COMPLETED'), the marker without its space
toggleStep(el) ==
    IF el.checked
    THEN [el EXCEPT !.completed = TRUE,
                    !.title = IF Contains(@, <<"CHK">>) THEN @ ELSE @ \o Marker]
    ELSE [el EXCEPT !.completed = FALSE, !.title = RemoveFirst(@, Marker)]

\* the lines copySOPToClipboard writes for one step
ScriptStepText(prefix, step, i, team, level) ==
    [title |-> prefix \o <<NumStr(i), ": ">> \o step.title,
     description |-> step.description,
     responsible |-> OrElse(step.responsible, team),
     duration |-> OrElse(step.estimatedTime, "TBD"),
     priority |-> toUpperCase(OrElse(step.priority, level))]

\* the text copySOPToClipboard concatenates from sop
ScriptSopText(sop) ==
    [title |-> sop.title, severity |-> sop.severity,
     immediate |-> [i \in 1..Len(sop.immediateSteps) |->
        ScriptStepText(<<"STEP ">>, sop.immediateSteps[i], i, "Operations Team", "HIGH")],
     preventive |-> [i \in 1..Len(sop.preventiveActions) |->
        ScriptStepText(<<"PREVENTION ">>, sop.preventiveActions[i], i, "DevOps Team", "MEDIUM")],
     resolutionTarget |-> resolutionTarget(sop.severity),
     availabilityTarget |-> availabilityTarget(sop.severity)]

NoText ==
    [title |-> <<>>, severity |-> "", immediate |-> <<>>, preventive |-> <<>>,
     resolutionTarget |-> "", availabilityTarget |-> ""]

\* copySOPToClipboard: the first read of sop throws a ReferenceError when the
\* script's scope holds no such name, before writeText is reached; otherwise
\* the text is written and the promise settles either way
copySOPToClipboard(scope, sop, granted) ==
    IF "sop" \notin scope
    THEN [clipboard |-> NoText, status |-> "", uncaught |-> "ReferenceError"]
    ELSE IF granted
    THEN [clipboard |-> ScriptSopText(sop), status |-> "success", uncaught |-> ""]
    ELSE [clipboard |-> NoText, status |-> "failed", uncaught |-> ""]

NoPage ==
    [open |-> FALSE, sop |-> NoSOP, completedSteps |-> {}, steps |-> <<>>, clicks |-> 0,
     copy |-> [clipboard |-> NoText, status |-> "", uncaught |-> ""]]

\* the document generateHTML returned is opened
OpenExportedPage ==
    /\ ~page.open
    /\ \E sop \in PageSOPs, completed \in SUBSET StepIds, now \in ExportTimes :
        page' = [NoPage EXCEPT !.open = TRUE, !.sop = sop, !.completedSteps = completed,
                    !.steps = StepElements(generateHTML(sop, completed, now).doc, sop, completed)]

\* a click on a step's checkbox flips it and fires onchange
ToggleCheckbox ==
    /\ page.open
    /\ \E i \in 1..Len(page.steps) :
        page' = [page EXCEPT !.steps[i] = toggleStep([@ EXCEPT !.checked = ~@])]

\* a click on 'Copy Full SOP to Clipboard'
ClickCopy ==
    /\ page.open
    /\ page.clicks < MaxCopyClicks
    /\ \E granted \in BOOLEAN :
        page' = [page EXCEPT !.clicks = @ + 1,
                    !.copy = copySOPToClipboard(ScriptGlobals, page.sop, granted)]

ClosePage ==
    /\ page.open
    /\ page' = NoPage

InitPage == page = NoPage

(***************************************************************************)
(* IncidentForm, and the incidents POST /api/generate-sop reads            *)
(***************************************************************************)
\* the custom type typed into the form, character by character
CustomTypeTexts == { <<>>, <<" ">>, <<"x">>, <<" ", "x", " ">> }
FormActions == {"Restart Service"}
FormCustomActions == {"a"}

\* String.prototype.trim
trim(text) ==
    LET inked == { i \in 1..Len(text) : text[i] # " " }
    IN  IF inked = {} THEN <<>>
        ELSE SubSeq(text, CHOOSE i \in inked : \A j \in inked : i <= j,
                          CHOOSE i \in inked : \A j \in inked : i >= j)

\* validateForm: the fields that get an error message
validateForm(f) ==
    (IF f.type = "" THEN {"type"}
     ELSE IF f.type = "Custom" /\ trim(f.customType) = <<>> THEN {"customType"} ELSE {})
    \cup (IF f.severity = "" THEN {"severity"} ELSE {})
    \cup (IF f.actionsTaken = {} /\ f.customActions = {} THEN {"actions"} ELSE {})

NoCustomType == <<"<absent>">>
\* the object handleSubmit passes to onSubmit
IncidentData(f) ==
    [type |-> f.type,
     customType |-> IF f.type = "Custom" THEN trim(f.customType) ELSE NoCustomType,
     severity |-> f.severity,
     actionsTaken |-> f.actionsTaken,
     customActions |-> f.customActions]
NoIncidentData ==
    [type |-> Absent, customType |-> NoCustomType, severity |-> Absent,
     actionsTaken |-> {}, customActions |-> {}]

\* the incidents a client of the endpoint can put into the request body
PostedIncidents ==
    [type : {"Server Down", "Custom"}, customType : {NoCustomType, <<"x">>},
     severity : {"High"}, actionsTaken : {FormActions}, customActions : {{}}]

\* POST /api/generate-sop: const incident: Incident = await request.json();
\* the annotation checks nothing at run time, and the prompt is built from
\* the object as it came
IncidentRead(body) == body

EmptyForm ==
    [type |-> "", customType |-> <<>>, severity |-> "", actionsTaken |-> {},
     customActions |-> {}, errors |-> {}, sent |-> NoIncidentData,
     generating |-> NoIncidentData]

SetType ==
    \E t \in IncidentTypes :
        form' = [form EXCEPT !.type = t, !.errors = @ \ {"type"}]

\* the text input is rendered for the type 'Custom' only
SetCustomType ==
    /\ form.type = "Custom"
    /\ \E text \in CustomTypeTexts :
        form' = [form EXCEPT !.customType = text, !.errors = @ \ {"customType"}]

SetSeverity ==
    \E sev \in Severities :
        form' = [form EXCEPT !.severity = sev, !.errors = @ \ {"severity"}]

HandleActionToggle ==
    \E action \in FormActions :
        form' = [form EXCEPT
                    !.actionsTaken = IF action \in @ THEN @ \ {action} ELSE @ \cup {action},
                    !.errors = @ \ {"actions"}]

AddCustomAction ==
    \E action \in FormCustomActions :
        /\ action \notin form.customActions
        /\ form' = [form EXCEPT !.customActions = @ \cup {action}]

RemoveCustomAction ==
    \E action \in form.customActions :
        form' = [form EXCEPT !.customActions = @ \ {action}]

\* handleSubmit; onSubmit is Home.handleIncidentSubmit, which posts the
\* incident to /api/generate-sop
HandleSubmit ==
    LET newErrors == validateForm(form)
    IN  IF newErrors # {}
        THEN form' = [form EXCEPT !.errors = newErrors]
        ELSE form' = [form EXCEPT !.errors = {}, !.sent = IncidentData(form),
                                  !.generating = IncidentRead(IncidentData(form))]

\* a request to the endpoint that does not come from the form
PostIncident ==
    \E body \in PostedIncidents :
        form' = [form EXCEPT !.generating = IncidentRead(body)]

InitForm == form = EmptyForm

(***************************************************************************)
(* SOPDisplay step buttons: clicks and re-renders                          *)
(***************************************************************************)
\* the steps of the SOP on display
ShownStepIds == {"step_1", "step_2", "prev_1"}

\* SOPDisplay.toggleStepCompletion: isCompleting is computed from the
\* completedSteps prop of the render the handler was created in, and handed to
\* Home.handleStepCompletion, whose updater runs on the current set
toggleStepCompletion(rendered, current, stepId) ==
    LET isCompleting == stepId \notin rendered
    IN  handleStepCompletion(current, stepId, isCompleting)

\* a new SOP is on display: nothing completed, nothing clicked
FreshDisplay ==
    [completedSteps |-> {}, rendered |-> {}, clicks |-> [id \in ShownStepIds |-> 0]]

\* a click on a step's button; clicks counts the clicks on each step modulo 2
ClickStep ==
    \E stepId \in ShownStepIds :
        display' = [display EXCEPT
            !.completedSteps = toggleStepCompletion(display.rendered, @, stepId),
            !.clicks[stepId] = (@ + 1) % 2]

\* React renders SOPDisplay again with Home's current set
RerenderSOPDisplay ==
    /\ display.rendered # display.completedSteps
    /\ display' = [display EXCEPT !.rendered = display.completedSteps]

\* handleIncidentSubmit: setCompletedSteps(new Set()), and a new SOP later
ResetDisplay ==
    /\ display # FreshDisplay
    /\ display.rendered = display.completedSteps
    /\ display' = FreshDisplay

InitDisplay == display = FreshDisplay

(***************************************************************************)
(* The Chatbot page                                                        *)
(***************************************************************************)
\* what is typed into the input: words and blanks
ChatInputs == { <<>>, <<" ">>, <<"incident">>, <<" ", "other", " ">> }
Greeting == [role |-> "assistant", content |-> <<"Hello!">>]
Apology == <<"I apologize">>

\* the message of a request: the word of a one-word text
MessageOf(content) == IF Len(content) = 1 THEN content[1] ELSE "other"

NoChatFetch == [stage |-> "idle", message |-> <<>>, status |-> 0, response |-> ""]
FreshChat == [messages |-> <<Greeting>>, input |-> <<>>, isLoading |-> FALSE, net |-> NoChatFetch]

UserMessages(messages) == SelectSeq(messages, LAMBDA msg : msg.role = "user")

\* onChange of the input, which is disabled while isLoading
SetChatInput ==
    /\ ~chat.isLoading
    /\ \E text \in ChatInputs :
        /\ text # chat.input
        /\ chat' = [chat EXCEPT !.input = text]

\* handleSubmit up to the await of fetch: if (!input.trim() || isLoading) return
SubmitChat ==
    /\ Len(UserMessages(chat.messages)) < MaxChatTurns
    /\ IF trim(chat.input) = <<>> \/ chat.isLoading
       THEN UNCHANGED chat
       ELSE chat' = [messages |-> Append(chat.messages,
                                    [role |-> "user", content |-> trim(chat.input)]),
                     input |-> <<>>,
                     isLoading |-> TRUE,
                     net |-> [NoChatFetch EXCEPT !.stage = "request",
                                                 !.message = trim(chat.input)]]

\* POST /api/chatbot answers the request in flight
ServeChatbot ==
    /\ chat.net.stage = "request"
    /\ \E k \in {"missing", "ok"}, ai \in ChatOutcomes :
        LET r == ChatbotPOST([json |-> "object", message |-> MessageOf(chat.net.message)], k, ai)
        IN  chat' = [chat EXCEPT !.net.stage = "response", !.net.status = r.status,
                                 !.net.response = r.response]

AfterAnswer_DropsFailure(messages, ok, response) ==
    IF ok THEN Append(messages, [role |-> "assistant", content |-> <<response>>])
    ELSE messages

\* the assistant message appended after the await: data.response, or the
\* apology of the catch block
AfterAnswer(messages, ok, response) ==
    Append(messages, [role |-> "assistant",
                      content |-> IF ok THEN <<response>> ELSE Apology])

\* handleSubmit after the await: response.ok or not, then finally
ReceiveChatAnswer ==
    /\ chat.net.stage = "response"
    /\ chat' = [chat EXCEPT
                    !.messages = AfterAnswer(@, chat.net.status = 200, chat.net.response),
                    !.isLoading = FALSE,
                    !.net = NoChatFetch]

\* fetch rejects: catch, then finally
ChatFetchRejects ==
    /\ chat.net.stage \in {"request", "response"}
    /\ chat' = [chat EXCEPT !.messages = AfterAnswer(@, FALSE, ""),
                            !.isLoading = FALSE,
                            !.net = NoChatFetch]

InitChat == chat = FreshChat

(***************************************************************************)
(* Specifications                                                          *)
(***************************************************************************)
InitExport == expResp = IdleExport
InitApi == ApiIdle
InitHome ==
    /\ currentIncident = NoIncident
    /\ currentSOP = NullSOP
    /\ isLoading = FALSE
    /\ error = ""
    /\ completedSteps = {}
    /\ net = NetIdle
    /\ discarded = FALSE

Init == InitExport /\ InitApi /\ InitHome /\ InitView /\ InitPdf /\ InitMetrics /\ InitPage /\ InitForm /\ InitDisplay /\ InitChat

\* the Home page and the generation endpoint behind it
Next ==
    \/ HandleIncidentSubmit /\ UNCHANGED <<exportVars, apiVars, viewVars, pdfVars, metricsVars, pageVars, formVars, displayVars, chatVars>>
    \/ ServeGenerateSop /\ UNCHANGED <<exportVars, apiVars, viewVars, pdfVars, metricsVars, pageVars, formVars, displayVars, chatVars>>
    \/ ReceiveResponse /\ UNCHANGED <<exportVars, apiVars, viewVars, pdfVars, metricsVars, pageVars, formVars, displayVars, chatVars>>
    \/ FetchRejects /\ UNCHANGED <<exportVars, apiVars, viewVars, pdfVars, metricsVars, pageVars, formVars, displayVars, chatVars>>
    \/ ToggleStep /\ UNCHANGED <<exportVars, apiVars, viewVars, pdfVars, metricsVars, pageVars, formVars, displayVars, chatVars>>
    \/ DismissError /\ UNCHANGED <<exportVars, apiVars, viewVars, pdfVars, metricsVars, pageVars, formVars, displayVars, chatVars>>
    \/ OnNewSOP /\ UNCHANGED <<exportVars, apiVars, viewVars, pdfVars, metricsVars, pageVars, formVars, displayVars, chatVars>>

Spec == Init /\ [][Next]_vars

\* the Home page where the promise of fetch settles: it resolves with the
\* server's answer or rejects, and the await of handleIncidentSubmit returns
NextLive ==
    \/ HandleIncidentSubmit /\ UNCHANGED <<exportVars, apiVars, viewVars, pdfVars, metricsVars, pageVars, formVars, displayVars, chatVars>>
    \/ ServeTypical /\ UNCHANGED <<exportVars, apiVars, viewVars, pdfVars, metricsVars, pageVars, formVars, displayVars, chatVars>>
    \/ ReceiveResponse /\ UNCHANGED <<exportVars, apiVars, viewVars, pdfVars, metricsVars, pageVars, formVars, displayVars, chatVars>>
    \/ FetchRejects /\ UNCHANGED <<exportVars, apiVars, viewVars, pdfVars, metricsVars, pageVars, formVars, displayVars, chatVars>>
    \/ ToggleStep /\ UNCHANGED <<exportVars, apiVars, viewVars, pdfVars, metricsVars, pageVars, formVars, displayVars, chatVars>>
    \/ DismissError /\ UNCHANGED <<exportVars, apiVars, viewVars, pdfVars, metricsVars, pageVars, formVars, displayVars, chatVars>>
    \/ OnNewSOP /\ UNCHANGED <<exportVars, apiVars, viewVars, pdfVars, metricsVars, pageVars, formVars, displayVars, chatVars>>

SpecLive ==
    /\ Init
    /\ [][NextLive]_vars
    /\ WF_vars((ReceiveResponse \/ FetchRejects) /\ UNCHANGED <<exportVars, apiVars, viewVars, pdfVars, metricsVars, pageVars, formVars, displayVars, chatVars>>)

\* POST /api/export
NextExport ==
    \/ ExportCall /\ UNCHANGED <<apiVars, homeVars, viewVars, pdfVars, metricsVars, pageVars, formVars, displayVars, chatVars>>
    \/ ExportReturn /\ UNCHANGED <<apiVars, homeVars, viewVars, pdfVars, metricsVars, pageVars, formVars, displayVars, chatVars>>

SpecExport == Init /\ [][NextExport]_vars

\* POST /api/generate-sop, POST /api/chatbot, GET /api/test-gemini
NextApi ==
    \/ GenCall /\ UNCHANGED <<exportVars, homeVars, viewVars, pdfVars, metricsVars, pageVars, formVars, displayVars, chatVars>>
    \/ ChatCall /\ UNCHANGED <<exportVars, homeVars, viewVars, pdfVars, metricsVars, pageVars, formVars, displayVars, chatVars>>
    \/ TestCall /\ UNCHANGED <<exportVars, homeVars, viewVars, pdfVars, metricsVars, pageVars, formVars, displayVars, chatVars>>
    \/ ApiReturn /\ UNCHANGED <<exportVars, homeVars, viewVars, pdfVars, metricsVars, pageVars, formVars, displayVars, chatVars>>

SpecApi == Init /\ [][NextApi]_vars

\* SOPDisplay rendered for an SOP and a set of completed steps
NextView ==
    \/ RenderSOPDisplay /\ UNCHANGED <<exportVars, apiVars, homeVars, pdfVars, metricsVars, pageVars, formVars, displayVars, chatVars>>
    \/ UnmountSOPDisplay /\ UNCHANGED <<exportVars, apiVars, homeVars, pdfVars, metricsVars, pageVars, formVars, displayVars, chatVars>>

SpecView == Init /\ [][NextView]_vars

\* generatePDF laying out one document after another
NextPdf ==
    \/ GeneratePDF /\ UNCHANGED <<exportVars, apiVars, homeVars, viewVars, metricsVars, pageVars, formVars, displayVars, chatVars>>
    \/ AddText /\ UNCHANGED <<exportVars, apiVars, homeVars, viewVars, metricsVars, pageVars, formVars, displayVars, chatVars>>
    \/ AddSectionHeader /\ UNCHANGED <<exportVars, apiVars, homeVars, viewVars, metricsVars, pageVars, formVars, displayVars, chatVars>>
    \/ DrawBox /\ UNCHANGED <<exportVars, apiVars, homeVars, viewVars, metricsVars, pageVars, formVars, displayVars, chatVars>>
    \/ AdvanceCursor /\ UNCHANGED <<exportVars, apiVars, homeVars, viewVars, metricsVars, pageVars, formVars, displayVars, chatVars>>
    \/ AddFooterToAllPages /\ UNCHANGED <<exportVars, apiVars, homeVars, viewVars, metricsVars, pageVars, formVars, displayVars, chatVars>>
    \/ ReturnPDF /\ UNCHANGED <<exportVars, apiVars, homeVars, viewVars, metricsVars, pageVars, formVars, displayVars, chatVars>>

SpecPdf == Init /\ [][NextPdf]_vars

\* GET, POST and PUT /api/metrics, in any order
NextMetrics ==
    \/ MetricsGET /\ UNCHANGED <<exportVars, apiVars, homeVars, viewVars, pdfVars, pageVars, formVars, displayVars, chatVars>>
    \/ MetricsPOST /\ UNCHANGED <<exportVars, apiVars, homeVars, viewVars, pdfVars, pageVars, formVars, displayVars, chatVars>>
    \/ MetricsPUT /\ UNCHANGED <<exportVars, apiVars, homeVars, viewVars, pdfVars, pageVars, formVars, displayVars, chatVars>>

SpecMetrics == Init /\ [][NextMetrics]_vars

\* the exported HTML document in the browser
NextPage ==
    \/ OpenExportedPage /\ UNCHANGED <<exportVars, apiVars, homeVars, viewVars, pdfVars, metricsVars, formVars, displayVars, chatVars>>
    \/ ToggleCheckbox /\ UNCHANGED <<exportVars, apiVars, homeVars, viewVars, pdfVars, metricsVars, formVars, displayVars, chatVars>>
    \/ ClickCopy /\ UNCHANGED <<exportVars, apiVars, homeVars, viewVars, pdfVars, metricsVars, formVars, displayVars, chatVars>>
    \/ ClosePage /\ UNCHANGED <<exportVars, apiVars, homeVars, viewVars, pdfVars, metricsVars, formVars, displayVars, chatVars>>

SpecPage == Init /\ [][NextPage]_vars

\* the incident form, and the endpoint it posts to
NextForm ==
    \/ SetType /\ UNCHANGED <<exportVars, apiVars, homeVars, viewVars, pdfVars, metricsVars, pageVars, displayVars, chatVars>>
    \/ SetCustomType /\ UNCHANGED <<exportVars, apiVars, homeVars, viewVars, pdfVars, metricsVars, pageVars, displayVars, chatVars>>
    \/ SetSeverity /\ UNCHANGED <<exportVars, apiVars, homeVars, viewVars, pdfVars, metricsVars, pageVars, displayVars, chatVars>>
    \/ HandleActionToggle /\ UNCHANGED <<exportVars, apiVars, homeVars, viewVars, pdfVars, metricsVars, pageVars, displayVars, chatVars>>
    \/ AddCustomAction /\ UNCHANGED <<exportVars, apiVars, homeVars, viewVars, pdfVars, metricsVars, pageVars, displayVars, chatVars>>
    \/ RemoveCustomAction /\ UNCHANGED <<exportVars, apiVars, homeVars, viewVars, pdfVars, metricsVars, pageVars, displayVars, chatVars>>
    \/ HandleSubmit /\ UNCHANGED <<exportVars, apiVars, homeVars, viewVars, pdfVars, metricsVars, pageVars, displayVars, chatVars>>
    \/ PostIncident /\ UNCHANGED <<exportVars, apiVars, homeVars, viewVars, pdfVars, metricsVars, pageVars, displayVars, chatVars>>

SpecForm == Init /\ [][NextForm]_vars

\* clicks on the step buttons of one SOP, and the renders between them
NextDisplay ==
    \/ ClickStep /\ UNCHANGED <<exportVars, apiVars, homeVars, viewVars, pdfVars, metricsVars, pageVars, formVars, chatVars>>
    \/ RerenderSOPDisplay /\ UNCHANGED <<exportVars, apiVars, homeVars, viewVars, pdfVars, metricsVars, pageVars, formVars, chatVars>>
    \/ ResetDisplay /\ UNCHANGED <<exportVars, apiVars, homeVars, viewVars, pdfVars, metricsVars, pageVars, formVars, chatVars>>

SpecDisplay == Init /\ [][NextDisplay]_vars

\* the chat page; the promise of fetch settles, so that the await returns
NextChat ==
    \/ SetChatInput /\ UNCHANGED <<exportVars, apiVars, homeVars, viewVars, pdfVars, metricsVars, pageVars, formVars, displayVars>>
    \/ SubmitChat /\ UNCHANGED <<exportVars, apiVars, homeVars, viewVars, pdfVars, metricsVars, pageVars, formVars, displayVars>>
    \/ ServeChatbot /\ UNCHANGED <<exportVars, apiVars, homeVars, viewVars, pdfVars, metricsVars, pageVars, formVars, displayVars>>
    \/ ReceiveChatAnswer /\ UNCHANGED <<exportVars, apiVars, homeVars, viewVars, pdfVars, metricsVars, pageVars, formVars, displayVars>>
    \/ ChatFetchRejects /\ UNCHANGED <<exportVars, apiVars, homeVars, viewVars, pdfVars, metricsVars, pageVars, formVars, displayVars>>

SpecChat ==
    /\ Init
    /\ [][NextChat]_vars
    /\ WF_vars((ReceiveChatAnswer \/ ChatFetchRejects) /\ UNCHANGED <<exportVars, apiVars, homeVars, viewVars, pdfVars, metricsVars, pageVars, formVars, displayVars>>)

(***************************************************************************)
(* Claims                                                                  *)
(***************************************************************************)
ExportAnswered == expResp.status = 200
ReqSop == expResp.req.sop
ReqDone == expResp.req.completedSteps

C3_MissingFieldRejected ==
    (expResp.status # 0
     /\ (expResp.req.sop.missing = "sop" \/ expResp.req.format \in {Absent, ""}))
    => /\ expResp.invoked = <<>>
       /\ expResp.doc = NoDoc
       /\ expResp.status >= 400
       /\ expResp.req.json = "object" =>
            expResp.status = 400 /\ expResp.error = "Missing required parameters"

\* C3 witness: a complete SOP and completed steps sent without a format, rejected.
C3_Witness ==
    /\ expResp.req.json = "object"
    /\ expResp.req.sop.missing = "none"
    /\ expResp.req.completedSteps # {}
    /\ expResp.req.format = Absent
    /\ expResp.status = 400

EmitterOf(format) ==
    CASE format = "pdf" -> "generatePDF"
      [] format = "docx" -> "generateDOCX"
      [] format = "html" -> "generateHTML"
      [] format = "clipboard" -> "generateClipboardText"
      [] OTHER -> "none"

HasRequiredFields ==
    /\ expResp.req.json = "object"
    /\ expResp.req.sop.missing # "sop"
    /\ expResp.req.format \notin {Absent, ""}

C5_EmitterFailureIsTerminal ==
    expResp.threw =>
        /\ expResp.status = 500
        /\ expResp.error = "Export failed"
        /\ expResp.doc = NoDoc
        /\ expResp.invoked = << EmitterOf(expResp.req.format) >>

\* C5 witness: an SOP without its immediateSteps list makes the PDF emitter throw.
C5_Witness ==
    /\ expResp.threw
    /\ expResp.req.format = "pdf"
    /\ expResp.req.sop.missing = "immediateSteps"
    /\ expResp.status = 500

GenAnswered == genResp.kind # "idle"
GenAI == genResp.req.ai

\* C2, as stated: an answer that is an SOP has two non-empty step lists, and an
\* SOP is what the caller gets when the AI call fails and when the AI returns
\* malformed content (text that is no JSON, JSON without the required fields,
\* JSON whose step lists are empty or are no lists).
C2_AlwaysUsableSOP ==
    /\ genResp.kind = "sop" =>
        /\ Len(genResp.sop.immediateSteps) > 0
        /\ Len(genResp.sop.preventiveActions) > 0
    /\ (GenAnswered /\ GenAI.kind \in {"throw", "nonjson", "json"}) => genResp.kind = "sop"

\* the failure class of an error answer: a missing or malformed configured key,
\* or the first class the thrown message matches
ClassStatus(r) ==
    IF r.cause \in {"key_missing", "key_format"} THEN 401
    ELSE IF r.thrown.isError
            /\ r.thrown.kws \cap {"api key", "unauthorized", "invalid key"} # {} THEN 401
    ELSE IF r.thrown.isError /\ r.thrown.kws \cap {"quota", "limit"} # {} THEN 429
    ELSE IF r.thrown.isError /\ {"model", "not found"} \subseteq r.thrown.kws THEN 503
    ELSE IF r.thrown.isError /\ r.thrown.kws \cap {"network", "timeout"} # {} THEN 503
    ELSE 500

IsPrefix(s, t) == Len(s) <= Len(t) /\ SubSeq(t, 1, Len(s)) = s

\* C7, as stated: generation, chat and the test endpoint try the ordered list of
\* model identifiers, in order, until one succeeds or all have failed.
C7_TriesListUntilSuccessOrAllFail ==
    /\ (GenAnswered /\ GenAI.kind # "notcalled") =>
        /\ IsPrefix(genResp.calls, modelsToTry)
        /\ GenAI.kind = "throw" => genResp.calls = modelsToTry
    /\ (chatResp.kind # "idle" /\ chatResp.calls # <<>>) =>
        /\ IsPrefix(chatResp.calls, modelsToTry)
        /\ chatResp.req.ai = "throw" => chatResp.calls = modelsToTry
    /\ (testResp.answer # "idle" /\ testResp.req.key = "ok") =>
        /\ IsPrefix(testResp.loop.calls, modelsToTry)
        /\ (\A i \in 1..Len(modelsToTry) : testResp.req.oracle[i] = "throw")
            => testResp.loop.calls = modelsToTry

\* C7, amended: generation and chat call the single model 'gemini-2.5-flash' at
\* most once per request; when that call fails the request ends with an error
\* and no other model is tried.  Only the test endpoint tries the ordered list,
\* in order: every call before the last one threw, nothing is called after a
\* call that did not throw, no model is called twice, and when all have thrown
\* the request ends with the 503 error.
C7_OneModelOrOrderedList ==
    /\ GenAnswered =>
        /\ genResp.calls \in {<<>>, <<"gemini-2.5-flash">>}
        /\ GenAI.kind = "notcalled" <=> genResp.calls = <<>>
        /\ GenAI.kind = "throw" => genResp.kind = "error"
    /\ chatResp.kind # "idle" =>
        /\ chatResp.calls \in {<<>>, <<"gemini-2.5-flash">>}
        /\ (chatResp.calls # <<>> /\ chatResp.req.ai = "throw") => chatResp.kind = "error"
    /\ (testResp.answer # "idle" /\ testResp.req.key = "ok") =>
        LET calls == testResp.loop.calls
            oracle == testResp.req.oracle
        IN  /\ IsPrefix(calls, modelsToTry)
            /\ Len(calls) >= 1
            /\ \A i \in 1..(Len(calls) - 1) : oracle[i] = "throw"
            /\ oracle[Len(calls)] = "throw" =>
                 calls = modelsToTry /\ testResp.status = 503
            /\ \A i, j \in 1..Len(calls) : calls[i] = calls[j] => i = j

\* C7 witness: the one model call of generation throws and the request ends
\* with an error after that single call.
C7_Witness ==
    /\ genResp.kind = "error"
    /\ GenAI.kind = "throw"
    /\ genResp.calls = <<"gemini-2.5-flash">>

\* C8, as stated: an SOP returned by generation, built from the AI response or
\* the fallback, has 5 immediate steps and 5 preventive actions for High, 4 and 4
\* for Medium, 3 and 3 for Low.
C8_StepCountScalesWithSeverity ==
    genResp.kind = "sop" =>
        LET n == CASE genResp.sop.severity = "High" -> 5
                   [] genResp.sop.severity = "Medium" -> 4
                   [] OTHER -> 3
        IN  /\ Len(genResp.sop.immediateSteps) = n
            /\ Len(genResp.sop.preventiveActions) = n

HomeAnswer == net.resp

\* C9: an SOP returned by generation carries the id, the severity and the
\* category of the incident it was generated from, whatever the AI response
\* holds and on the fallback path; and whenever the Home page has a current SOP,
\* its id, severity and category are those of the current incident.
C9_SopInheritsIncident ==
    /\ (net.stage = "response" /\ HomeAnswer.kind = "sop") =>
        /\ HomeAnswer.sop.id = net.incident.id
        /\ HomeAnswer.sop.severity = net.incident.severity
        /\ HomeAnswer.sop.incidentType = net.incident.type
    /\ currentSOP # NullSOP =>
        /\ currentSOP.id = currentIncident.id
        /\ currentSOP.severity = currentIncident.severity
        /\ currentSOP.incidentType = currentIncident.type

\* C9 witness: the AI response names an id and a severity of its own and the
\* endpoint answers with an SOP.
C9_Witness ==
    /\ net.stage = "response"
    /\ HomeAnswer.kind = "sop"
    /\ HomeAnswer.req.ai.kind = "json"
    /\ HomeAnswer.req.ai.data.id = "ai_id"
    /\ HomeAnswer.req.ai.data.severity = "Low"
    /\ net.incident.severity = "High"

\* C10: whenever a newly generated SOP becomes the current SOP, the set of
\* completed steps is empty at that moment; completions recorded for an earlier
\* SOP do not carry over.
C10_CompletedEmptyOnNewSOP ==
    [][(currentSOP' # NullSOP /\ currentSOP' # currentSOP) => completedSteps' = {}]_vars

\* C10 witness: a new SOP is current, its set is empty, and the submission that
\* produced it threw away the completions of an earlier SOP.
C10_Witness ==
    /\ currentSOP # NullSOP
    /\ discarded
    /\ completedSteps = {}
    /\ ~isLoading

\* C11, as stated: the percentage shown is round(100 * |completed| / number of
\* steps) (a half rounded up), 0 for an SOP without steps, always between 0 and
\* 100, and 33 for 2 completed steps of 6.
C11_PercentageIsExactRounding ==
    view.rendered =>
        /\ view.percentage =
                IF view.total = 0 THEN 0
                ELSE (200 * view.size + view.total) \div (2 * view.total)
        /\ view.percentage >= 0
        /\ view.percentage <= 100
        /\ (view.size = 2 /\ view.total = 6) => view.percentage = 33

\* the ordinal a rendered title opens with: its second token, after the list's word
OrdinalOf(rendered, word) ==
    IF Len(rendered.title) >= 3 /\ rendered.title[1] = word /\ rendered.title[3] = ": "
    THEN rendered.title[2] ELSE "none"

\* C12: in every export format the i-th immediate step is shown with the ordinal
\* i and the j-th preventive action with the ordinal j, each list counted from 1
\* on its own, and every step of both lists is shown.
C12_ListsNumberedIndependently ==
    ExportAnswered =>
        /\ Len(expResp.doc.immediate) = Len(ReqSop.immediateSteps)
        /\ Len(expResp.doc.preventive) = Len(ReqSop.preventiveActions)
        /\ \A i \in 1..Len(expResp.doc.immediate) :
                OrdinalOf(expResp.doc.immediate[i], "STEP ") = NumStr(i)
        /\ \A j \in 1..Len(expResp.doc.preventive) :
                OrdinalOf(expResp.doc.preventive[j], "PREVENTION ") = NumStr(j)

\* C12 witness: an HTML export of two immediate steps and one preventive action,
\* the preventive action (third step overall) shown as number 1.
C12_Witness ==
    /\ ExportAnswered
    /\ expResp.req.format = "html"
    /\ Len(ReqSop.immediateSteps) = 2
    /\ Len(ReqSop.preventiveActions) = 1
    /\ OrdinalOf(expResp.doc.immediate[2], "STEP ") = "2"
    /\ OrdinalOf(expResp.doc.preventive[1], "PREVENTION ") = "1"

\* the file name of a DOCX or HTML attachment without its extension
AttachmentBase == SubSeq(expResp.filename, 1, Len(expResp.filename) - 1)
DownloadBase == SubSeq(expResp.download, 1, Len(expResp.download) - 1)
NamedExport == ExportAnswered /\ expResp.req.format \in {"docx", "html"}

StrippedExample ==
    << "s", "o", "p", "_", "s", "e", "r", "v", "e", "r", "_", "d", "o", "w", "n", "_",
       "r", "e", "s", "p", "o", "n", "s", "e", "_", "p", "r", "o", "c", "e", "d", "u", "r", "e" >>
ReplacedExample ==
    << "s", "o", "p", "_", "_", "s", "e", "r", "v", "e", "r", "_", "d", "o", "w", "n", "_",
       "r", "e", "s", "p", "o", "n", "s", "e", "_", "p", "r", "o", "c", "e", "d", "u", "r",
       "e", "_" >>

\* C13, as stated: the file name base is the title with every character outside
\* [a-zA-Z0-9] stripped, lower-cased; for "SOP: Server Down Response Procedure!"
\* it is "sop_server_down_response_procedure".
C13_BaseIsTitleStripped ==
    NamedExport =>
        LET kept == SelectSeq(ReqSop.title, IsAlnum)
        IN  /\ AttachmentBase = [i \in 1..Len(kept) |-> toLowerCase(kept[i])]
            /\ DownloadBase = AttachmentBase
            /\ ReqSop.title = ExampleTitle => AttachmentBase = StrippedExample

\* C13, amended: the file name base is the title with every character outside
\* [a-zA-Z0-9] replaced by '_' (one for each character, none removed), then
\* lower-cased; for "SOP: Server Down Response Procedure!" it is
\* "sop__server_down_response_procedure_".  The client's download name has the
\* same base.
C13_BaseReplacesByUnderscore ==
    NamedExport =>
        /\ Len(AttachmentBase) = Len(ReqSop.title)
        /\ \A i \in 1..Len(ReqSop.title) :
                AttachmentBase[i] = IF IsAlnum(ReqSop.title[i])
                                    THEN toLowerCase(ReqSop.title[i]) ELSE "_"
        /\ \A i \in 1..Len(AttachmentBase) : AttachmentBase[i] \in Digits \cup {"_"}
                \/ \E k \in 1..Len(LowerCase) : AttachmentBase[i] = LowerCase[k]
        /\ DownloadBase = AttachmentBase
        /\ ReqSop.title = ExampleTitle => AttachmentBase = ReplacedExample

\* C13 witness: the example title exported as DOCX.
C13_Witness ==
    /\ NamedExport
    /\ expResp.req.format = "docx"
    /\ ReqSop.title = ExampleTitle
    /\ expResp.filename = ReplacedExample \o <<".docx">>

\* the extension each attachment format calls its own
NativeExtension(format) ==
    CASE format = "pdf" -> ".pdf" [] format = "docx" -> ".docx" [] OTHER -> ".html"

\* the attachment name the emitter of `format` gives the exported SOP
AttachmentName(format) ==
    Dispatch(format, ReqSop, ReqDone, 1).out.filename

\* C14: for one SOP title the attachment names of the pdf, docx and html
\* emitters and the client's download name are one and the same sanitized base
\* followed by the format's extension and nothing else.
C14_SameBaseThenExtensionOnly ==
    (ExportAnswered /\ expResp.req.format \in {"pdf", "docx", "html"}) =>
        /\ expResp.filename = expResp.download
        /\ Len(expResp.filename) = Len(ReqSop.title) + 1
        /\ expResp.filename[Len(expResp.filename)] = NativeExtension(expResp.req.format)
        /\ \A f, g \in {"pdf", "docx", "html"} :
                ~PdfThrows(ReqSop) /\ ~DocxThrows(ReqSop) /\ ~HtmlThrows(ReqSop) =>
                    SubSeq(AttachmentName(f), 1, Len(AttachmentName(f)) - 1)
                        = SubSeq(AttachmentName(g), 1, Len(AttachmentName(g)) - 1)

\* C15: for severity High every format renders the risk label "CRITICAL", the
\* resolution target "< 30 minutes" and the availability target "99.9%"; for
\* Medium "MODERATE", "< 60 minutes", "99.5%"; for Low "LOW", "< 120 minutes",
\* "99.0%".
C15_PolicyValuesSharedByFormats ==
    (ExportAnswered /\ ReqSop.severity \in {"High", "Medium", "Low"}) =>
        <<expResp.doc.riskLevel, expResp.doc.resolutionTarget, expResp.doc.availabilityTarget>>
            = CASE ReqSop.severity = "High" -> <<"CRITICAL", "< 30 minutes", "99.9%">>
                [] ReqSop.severity = "Medium" -> <<"MODERATE", "< 60 minutes", "99.5%">>
                [] OTHER -> <<"LOW", "< 120 minutes", "99.0%">>

\* what a step card is to show for a step: the step's own responsible party,
\* duration and upper-cased priority, or the defaults of its list
CardShows(card, step, team, level) ==
    /\ card.responsible = (IF step.responsible = Absent THEN team ELSE step.responsible)
    /\ card.duration = (IF step.estimatedTime = Absent THEN "TBD" ELSE step.estimatedTime)
    /\ card.priority = (IF step.priority \in {Absent, ""} THEN level
                        ELSE toUpperCase(step.priority))

\* C16: in every format a step card shows a responsible party ("Operations
\* Team" / "DevOps Team" when the step has none), a duration ("TBD" when it has
\* none) and a priority ("HIGH" / "MEDIUM" when it has none, upper-cased when
\* it has one).
C16_CardDefaultsInEveryFormat ==
    ExportAnswered =>
        /\ \A i \in 1..Len(expResp.doc.immediate) :
                CardShows(expResp.doc.immediate[i], ReqSop.immediateSteps[i],
                          "Operations Team", "HIGH")
        /\ \A i \in 1..Len(expResp.doc.preventive) :
                CardShows(expResp.doc.preventive[i], ReqSop.preventiveActions[i],
                          "DevOps Team", "MEDIUM")

\* C17: for a valid SOP and any completedSteps, the clipboard text and the HTML
\* page hold, for each step of both lists, the same title (ordinal and
\* completion marker included), description, responsible party, duration and
\* priority.
C17_ClipboardAndHtmlCardsAgree ==
    (ExportAnswered /\ expResp.req.format \in {"html", "clipboard"} /\ ReqSop.missing = "none") =>
        LET html == generateHTML(ReqSop, ReqDone, 1).doc
            text == generateClipboardText(ReqSop, ReqDone).doc
            shown == expResp.doc
        IN  /\ Len(html.immediate) = Len(ReqSop.immediateSteps)
            /\ Len(html.preventive) = Len(ReqSop.preventiveActions)
            /\ shown.immediate = html.immediate /\ shown.immediate = text.immediate
            /\ shown.preventive = html.preventive /\ shown.preventive = text.preventive

\* C17 witness: a clipboard export of a completed immediate step that has a
\* priority and no responsible party.
C17_Witness ==
    /\ ExportAnswered
    /\ expResp.req.format = "clipboard"
    /\ Len(ReqSop.immediateSteps) = 1 /\ Len(ReqSop.preventiveActions) = 1
    /\ ReqSop.immediateSteps[1].priority = "low"
    /\ ReqSop.immediateSteps[1].responsible = Absent
    /\ ReqSop.immediateSteps[1].id \in ReqDone
    /\ expResp.doc.immediate[1].priority = "LOW"
    /\ expResp.doc.immediate[1].responsible = "Operations Team"
    /\ Contains(expResp.doc.immediate[1].title, Marker)

\* a response without the "Generated:" stamp of the page footer
WithoutStamp(resp) == [resp EXCEPT !.doc.generated = ""]

\* C18: the response to an export request (payload and headers), the
\* "generated at export time" stamp set aside, is the one the same request gets
\* at any other time.
C18_SameOutputAtAnyTime ==
    expResp # IdleExport =>
        \A now \in ExportTimes :
            WithoutStamp(ExportPOST(expResp.req, now)) = WithoutStamp(expResp)

C20_NoBlockStartsInFooterZone ==
    pdf.part # "none" => pdf.origin <= PageHeight - 200 - 150

\* C20 witness: the cursor had passed the limit, the next block was started at
\* the top of a new page, and, being a text longer than a page, ran past the
\* limit itself.
C20_Witness ==
    /\ PdfDrawing
    /\ pdf.origin = PageTop
    /\ pdf.yPosition > PageLimit

\* the content of the PDF is drawn
PdfContentDrawn == pdf.part \in {"footers", "output"}

\* C21: the PDF footers are stamped only once all content is drawn, one on
\* every page 1..N of the document, pages added by a page break included, and
\* the footer of page i reads "Page i of N" with N the final page count.
C21_FooterOnEveryPageAfterContent ==
    /\ PdfDrawing => pdf.footers = <<>>
    /\ pdf.footers # <<>> =>
            /\ PdfContentDrawn
            /\ \A i, j \in 1..Len(pdf.footers) :
                    pdf.footers[i].page = pdf.footers[j].page => i = j
    /\ pdf.part = "output" =>
            /\ Len(pdf.footers) = pdf.pages
            /\ \A i \in 1..pdf.pages :
                    /\ pdf.footers[i].page = i
                    /\ pdf.footers[i].text = <<"Page ", i, " of ", pdf.pages>>

\* C21 witness: a document that page breaks extended to three pages or more
\* has its footers.
C21_Witness ==
    /\ pdf.part = "output"
    /\ pdf.pages >= 3
    /\ Len(pdf.footers) = pdf.pages
    /\ pdf.footers[pdf.pages].text = <<"Page ", pdf.pages, " of ", pdf.pages>>

PageStep(i) ==
    IF i <= Len(page.sop.immediateSteps) THEN page.sop.immediateSteps[i]
    ELSE page.sop.preventiveActions[i - Len(page.sop.immediateSteps)]
UncompletedTitle(i) ==
    IF i <= Len(page.sop.immediateSteps)
    THEN HtmlImmediateStep(page.sop.immediateSteps[i], i, {}).title
    ELSE HtmlPreventiveStep(PageStep(i), i - Len(page.sop.immediateSteps), {}).title
Occurrences(text, sub) ==
    Cardinality({ k \in 1..Len(text) :
        k + Len(sub) - 1 <= Len(text) /\ SubSeq(text, k, k + Len(sub) - 1) = sub })

\* C23, as stated: in the exported HTML, after any sequence of checkbox toggles
\* a step's title contains ' ✓ COMPLETED' if and only if its checkbox is
\* checked, the marker occurs at most once, and an unchecked step shows the
\* title exactly as exported for an uncompleted step.
C23_MarkerFollowsCheckbox ==
    page.open =>
        \A i \in 1..Len(page.steps) :
            /\ Contains(page.steps[i].title, Marker) <=> page.steps[i].checked
            /\ Occurrences(page.steps[i].title, Marker) <= 1
            /\ ~page.steps[i].checked => page.steps[i].title = UncompletedTitle(i)

\* C24, as stated: once the copy button was clicked the clipboard holds the
\* text built from the exported SOP and the action ended with the success
\* status, not an error.
C24_CopyWritesSopText ==
    (page.open /\ page.clicks > 0) =>
        /\ page.copy.clipboard = ScriptSopText(page.sop)
        /\ page.copy.status = "success"
        /\ page.copy.uncaught = ""

\* type 'Custom' implies a non-empty trimmed customType
IncidentInvariant(incident) ==
    incident.type = "Custom" =>
        /\ incident.customType # NoCustomType
        /\ trim(incident.customType) # <<>>

\* what the form hands to onSubmit: a type, a severity, at least one standard
\* or custom action, and a custom type that is not blank
FormSubmits ==
    form.sent # NoIncidentData =>
        /\ form.sent.type \in IncidentTypes
        /\ form.sent.severity \in Severities
        /\ form.sent.actionsTaken \cup form.sent.customActions # {}
        /\ IncidentInvariant(form.sent)

\* C25, as stated: every incident that reaches SOP generation satisfies the
\* Incident invariant, and the form calls onSubmit only with a type, a
\* severity, at least one action and, for 'Custom', a non-blank custom type.
C25_GenerationSeesValidIncidents ==
    /\ form.generating # NoIncidentData => IncidentInvariant(form.generating)
    /\ FormSubmits

\* the ids of the steps of a list, kept as supplied or defaulted by position
IdsKept(steps, items, default) ==
    /\ Len(steps) = Len(items)
    /\ \A i \in 1..Len(steps) :
        /\ steps[i].id \notin {Absent, ""}
        /\ steps[i].id = IF items[i].id = Absent THEN default[i] ELSE items[i].id
IdsUnique(steps) ==
    \A i, j \in 1..Len(steps) : steps[i].id = steps[j].id => i = j

\* C26, as stated: each step of a returned SOP has a non-empty id that is
\* unique within its list, an id the AI supplied is kept and a missing one is
\* 'immediate_<n>' or 'preventive_<n>', and an id (an entry of the completed
\* set) designates exactly one step of the SOP.
C26_StepIdsUniqueAndKept ==
    genResp.kind = "sop" =>
        LET d == ParseSopData(GenAI, genResp.req.body.incident)
            sop == genResp.sop
        IN  /\ IdsKept(sop.immediateSteps, d.immediateSteps.items,
                        [i \in 1..Len(sop.immediateSteps) |-> ImmediateId(i)])
            /\ IdsKept(sop.preventiveActions, d.preventiveActions.items,
                        [i \in 1..Len(sop.preventiveActions) |-> PreventiveId(i)])
            /\ IdsUnique(sop.immediateSteps)
            /\ IdsUnique(sop.preventiveActions)
            /\ IdsUnique(sop.immediateSteps \o sop.preventiveActions)

\* C27, as stated: under any interleaving of clicks and re-renders a step is
\* in the completed set exactly when it was clicked an odd number of times
\* since the SOP came up; so two clicks on a step before a re-render leave the
\* set as it was.
C27_MembershipIsClickParity ==
    \A id \in ShownStepIds : id \in display.completedSteps <=> display.clicks[id] = 1

SopSet == currentSOP # NullSOP
ErrorSet == error # ""

\* C28: on the Home page error and currentSOP are never both set, both are
\* null while isLoading is true, and every submission leads to a state where
\* isLoading is false and exactly one of currentSOP and error is set.
C28_LoadingEndsWithSopOrError ==
    /\ [](~(SopSet /\ ErrorSet))
    /\ [](isLoading => ~SopSet /\ ~ErrorSet)
    /\ (isLoading ~> (~isLoading /\ (SopSet # ErrorSet)))

\* C28 witness: a submission has failed: loading is over, the error is shown
\* and there is no SOP.
C28_Witness ==
    /\ currentIncident # NoIncident
    /\ ~isLoading
    /\ ErrorSet
    /\ ~SopSet
    /\ net = NetIdle

\* the list starts with the greeting and the roles alternate
Alternates(messages) ==
    /\ Len(messages) >= 1
    /\ messages[1] = Greeting
    /\ \A i \in 1..Len(messages) :
        messages[i].role = IF i % 2 = 1 THEN "assistant" ELSE "user"
LastRole == chat.messages[Len(chat.messages)].role

\* C29: the chat messages alternate, starting with the assistant greeting; a
\* user message is the trimmed, non-blank input and is the last message exactly
\* while isLoading is true, so nothing is appended by a submission made then
\* or with blank input; each user message is followed by one assistant message,
\* and isLoading becomes false again.
C29_ChatAlternatesAndAnswers ==
    /\ [](Alternates(chat.messages))
    /\ [](chat.isLoading <=> LastRole = "user")
    /\ [](\A i \in 1..Len(chat.messages) :
            chat.messages[i].role = "user" =>
                /\ chat.messages[i].content # <<>>
                /\ trim(chat.messages[i].content) = chat.messages[i].content)
    /\ [][Len(chat.messages') <= Len(chat.messages) + 1]_vars
    /\ (chat.isLoading ~> (~chat.isLoading /\ LastRole = "assistant"))

\* C29 witness: a second question was answered with the apology after a
\* non-OK status, the first with a reply.
C29_Witness ==
    /\ Len(chat.messages) = 5
    /\ ~chat.isLoading
    /\ chat.messages[3].content # Apology
    /\ chat.messages[5].content = Apology

\* the models of the list whose call completed without throwing
Succeeded == { i \in 1..Len(modelsToTry) : testResp.req.oracle[i] # "throw" }

\* C30, as stated: with a usable key the test endpoint answers 'success'
\* exactly when some model call completed without throwing, empty response
\* text included, and workingModel is then the first such model of the list;
\* it answers 503 'All Gemini models failed' exactly when every model threw,
\* and modelErrors then has one entry per model, in list order.
C30_SuccessIffSomeModelSucceeded ==
    (testResp.answer # "idle" /\ testResp.req.key = "ok") =>
        /\ testResp.answer = "success" <=> Succeeded # {}
        /\ Succeeded # {} =>
                testResp.loop.workingModel
                    = modelsToTry[CHOOSE i \in Succeeded : \A j \in Succeeded : i <= j]
        /\ (testResp.status = 503 /\ testResp.message = "All Gemini models failed")
                <=> Succeeded = {}
        /\ Succeeded = {} => testResp.loop.modelErrors = modelsToTry

====
